---- MODULE Spec2Model ----
(***************************************************************************)
(* Model of the ig-follower-analyzer repository: the scrape_runs polling   *)
(* workers and the tables they write (workers/*.py, api/app/routes), the    *)
(* client_count reconciliation job (workers/sync_client_counts.py), the     *)
(* legacy JSON store (main.py) and the profile scraping runs over it        *)
(* (scrape_profiles.py).                                                    *)
(***************************************************************************)
EXTENDS Integers, Sequences, FiniteSets, Bags, TLC

VARIABLES
    \* ---- Postgres tables (Supabase) ----
    scrape_runs,        \* sequence of rows, in created_at order; the index is the id
    pages,              \* sequence of page rows; the index is the id
    clients,            \* client id -> row
    client_following,   \* bag of <<client_id, page_id>> rows
    page_profiles,      \* page id -> stored snapshot (Null when no row)
    \* ---- worker processes ----
    running,            \* the worker processes that were started
    pc,                 \* worker -> position in poll_for_jobs / process_job
    job,                \* worker -> id of the row read by the poll (0: none)
    following_list,     \* client_following worker: the scraped list
    todo,               \* profile worker: pages.data still to scrape
    counts,             \* profile worker: <<success_count, failed_count>>
    db_faults,          \* TRUE when database calls may raise
    following_max,      \* the longest following list the scraper returns
    \* ---- sync_client_counts process ----
    sync_pc, all_pages, needs_update,
    sync_clean,         \* history: client_following unchanged since the run began
    \* ---- main.py: the JSON store and the command-line tool ----
    clients_data,       \* clients_data.json: [clients, pages], in insertion order
    cli,                \* the scrape_client_following call in progress
    batch,              \* the scrape_all_clients loop
    \* ---- scrape_profiles.py: one run of the script ----
    now,                \* the clock, in minutes
    run_pc,             \* "idle", "running", "done" or "crashed"
    mode,               \* the entry point of the run
    data,               \* the pages loaded by the run, written back on save
    pages_to_scrape,    \* the usernames the run selected
    prioritized_list,   \* the (username, tier) pairs handed to scrape_pages
    progress,           \* [i, successful, failed, failed_pages] of scrape_pages
    fails_since,        \* history: page -> failed attempts since its last success
    \* ---- sync_api.py and railway_sync.py: the smart merge ----
    data_file,          \* the data file on the volume: [clients, pages]
    new_data,           \* the dataset scraped locally, the payload of /sync
    previous,           \* history: the data file before the last /sync request
    merge_result,       \* railway_sync.merge_data_smart: [done, clients, pages]
    posts,              \* /sync requests served
    \* ---- main.py and categorize_app.py: the reports ----
    report,             \* the last call: [op, input, min_clients, category,
                        \*   rows, before]
    \* ---- scripts/sync_prod_to_staging.py ----
    prod_db,            \* production: table -> [columns, rows]
    staging_db,         \* staging: table -> [columns, rows]
    sync_script,        \* the run: [pc, full_sync, idx, mismatches, faults]
    staging_log,        \* history: the <<operation, table>> pairs that wrote
                        \*   or deleted a staging row
    \* ---- api/app: the routes of clients and pages ----
    api_db,             \* [clients, pages]: the rows of the two tables
    api_req,            \* request -> the create or bulk-create call in progress
    api_last,           \* the last update call: [op, known, status, before]
    \* ---- history of the client_following worker ----
    rows_before,        \* worker -> the client_following rows of the job's
                        \*   client when process_job began (history, kept
                        \*   where database calls may raise)
    sync_overlap,       \* the last sync_client_counts run and the last
                        \*   client_following job ran at the same time
    \* ---- workers/smart_follower_backfill.py, backfill_follower_counts.py ----
    backfill,           \* the smart backfill run: [pc, queue]
    scrape_jobs         \* the scrape_jobs table

dbvars == <<scrape_runs, pages, clients, client_following, page_profiles,
            running, pc, job, following_list, todo, counts, db_faults, following_max,
            sync_pc, all_pages, needs_update, sync_clean>>

jsonvars == <<clients_data, cli, batch>>

runvars == <<now, run_pc, mode, data, pages_to_scrape, prioritized_list,
             progress, fails_since>>

toolvars == <<data_file, new_data, previous, merge_result, posts, report>>

stagingvars == <<prod_db, staging_db, sync_script, staging_log>>

apivars == <<api_db, api_req, api_last>>

histvars == <<rows_before, sync_overlap>>

scriptvars == <<backfill, scrape_jobs>>

opsvars == <<stagingvars, apivars, histvars, scriptvars>>

\* the variables of the workers, of main.py, of scrape_profiles.py and of the
\* merge and the reports
appvars == <<dbvars, jsonvars, runvars, toolvars, histvars, scriptvars>>

vars == <<dbvars, jsonvars, runvars, toolvars, opsvars>>

Null == "null"

\* ------------------------------------------------------------------------
\* Bounds of the model
\* ------------------------------------------------------------------------
MaxRuns == 2          \* scrape_runs rows ever created
MaxRaceRuns == 1      \* the same, when two workers of one job type run
MaxFailures == 6      \* failed profile-scrape attempts on a page in a row
MaxList == 2          \* length of a scraped following list
MaxShortList == 1     \* the same, where workers and jobs interleave
MaxPosts == 2         \* /sync requests with one payload
MaxTierPages == 3     \* pages in the store that prioritize_pages reads
MaxReportPages == 2   \* pages in the store that the reports read

\* ------------------------------------------------------------------------
\* Strings are sequences of one-character strings
\* ------------------------------------------------------------------------
UpperToLower ==
    [c \in {"A","B","C","N","Z"} |->
        CASE c = "A" -> "a" [] c = "B" -> "b" [] c = "C" -> "c"
          [] c = "N" -> "n" [] c = "Z" -> "z"]

lower(s) == [i \in 1..Len(s) |->
                IF s[i] \in DOMAIN UpperToLower THEN UpperToLower[s[i]] ELSE s[i]]

IsSubstring(k, t) ==
    \E i \in 1..(Len(t) - Len(k) + 1) : SubSeq(t, i, i + Len(k) - 1) = k

HOTLIST_KEYWORDS ==
    { <<"h","u","s","t","l">>,
      <<"a","f","r","i">>,
      <<"a","f","r","o">>,
      <<"b","l","a","c","k">>,
      <<"m","e","l","a","n","i","n">>,
      <<"b","l","v","c","k">>,
      <<"c","u","l","t","u","r","e">>,
      <<"k","u","l","t","u","r","e">>,
      <<"b","r","o","w","n">>,
      <<"n","o","i","r">>,
      <<"e","b","o","n","y">> }

\* ------------------------------------------------------------------------
\* The outside world: Instagram accounts the scraping service can return
\* ------------------------------------------------------------------------
NOIR == <<"n","o","i","r","f","i","t">>
ZEN  == <<"z","e","n">>

Accounts ==
    { [username |-> NOIR, full_name |-> <<>>, follower_count |-> 1000],
      [username |-> ZEN,  full_name |-> <<"Z","e","n">>, follower_count |-> 0] }

RECURSIVE SeqsUpTo(_, _)
SeqsUpTo(S, n) ==
    IF n = 0 THEN { <<>> }
    ELSE LET shorter == SeqsUpTo(S, n - 1)
         IN  shorter \cup { Append(s, x) : s \in shorter, x \in S }

ScrapedLists == SeqsUpTo(Accounts, MaxList)

FollowerCounts == {1000}

ClientIds == {"c1", "c2"}
CFWorkers == {"w1", "w2"}
PWorkers  == {"p1"}
Workers   == CFWorkers \cup PWorkers

Range(s) == { s[i] : i \in DOMAIN s }

RECURSIVE SeqToBag(_)
SeqToBag(s) ==
    IF s = <<>> THEN EmptyBag ELSE SetToBag({Head(s)}) (+) SeqToBag(Tail(s))

\* ------------------------------------------------------------------------
\* Database primitives
\* ------------------------------------------------------------------------
\* .eq("scrape_type", t).eq("status", "pending").order("created_at").limit(1)
NextPending_Queued(t) ==
    LET ids == { i \in DOMAIN scrape_runs :
                    /\ scrape_runs[i].scrape_type = t
                    /\ scrape_runs[i].status = "queued" }
    IN  IF ids = {} THEN 0 ELSE CHOOSE i \in ids : \A k \in ids : i <= k

NextPending(t) ==
    LET ids == { i \in DOMAIN scrape_runs :
                    /\ scrape_runs[i].scrape_type = t
                    /\ scrape_runs[i].status = "pending" }
    IN  IF ids = {} THEN 0 ELSE CHOOSE i \in ids : \A k \in ids : i <= k

\* .update({...}).eq("id", id) on scrape_runs: no condition on the status
UpdateRun(id, status, result) ==
    [scrape_runs EXCEPT ![id].status = status, ![id].result = result]

\* insert into client_following; the table has the composite primary key
\* (client_id, page_id), so a batch that repeats a key, or holds a key that
\* is already stored, is rejected as a whole and the call raises
InsertRelationships_NoKey(table, rows) ==
    [ok |-> TRUE, table |-> table (+) SeqToBag(rows)]

InsertRelationships(table, rows) ==
    LET merged == table (+) SeqToBag(rows)
    IN  IF \E r \in BagToSet(merged) : CopiesIn(r, merged) > 1
        THEN [ok |-> FALSE, table |-> table]
        ELSE [ok |-> TRUE,  table |-> merged]

\* .delete().eq("client_id", c) on client_following
DeleteRelationships(table, c) ==
    LET keep == { r \in BagToSet(table) : r[1] # c }
    IN  [r \in keep |-> table[r]]

\* ------------------------------------------------------------------------
\* Initial state: empty tables, workers started and polling
\* ------------------------------------------------------------------------
InitTables ==
    /\ scrape_runs = <<>>
    /\ pages = <<>>
    /\ client_following = EmptyBag
    /\ page_profiles = <<>>
    /\ pc = [w \in Workers |-> "poll"]
    /\ job = [w \in Workers |-> 0]
    /\ following_list = [w \in CFWorkers |-> <<>>]
    /\ rows_before = [w \in CFWorkers |-> EmptyBag]
    /\ sync_overlap = FALSE
    /\ backfill = [pc |-> "off", queue |-> <<>>]
    /\ scrape_jobs = <<>>
    /\ todo = [w \in PWorkers |-> <<>>]
    /\ counts = [w \in PWorkers |-> <<0, 0>>]
    /\ sync_pc = "idle"
    /\ all_pages = <<>>
    /\ needs_update = <<>>
    /\ sync_clean = TRUE

\* no worker runs and the tables are empty
InitNoWorkers ==
    /\ InitTables
    /\ running = {}
    /\ db_faults = FALSE
    /\ following_max = 0
    /\ clients = <<>>

NewClient == [following_count |-> 0]

\* ------------------------------------------------------------------------
\* api/app/routes/scrapes.py
\* ------------------------------------------------------------------------
\* the result column: nothing, {"error": ...}, or the counts of the job
NoResult ==
    [error |-> Null, total |-> 0, success_count |-> 0, failed_count |-> 0]
ErrorResult(e) == [NoResult EXCEPT !.error = e]
CountsResult(total, ok, failed) ==
    [error |-> Null, total |-> total, success_count |-> ok, failed_count |-> failed]

NewRun(t, c, ids) ==
    [scrape_type |-> t, status |-> "pending", client_id |-> c,
     page_ids |-> ids, result |-> NoResult]

trigger_client_following(c, limit) ==
    /\ UNCHANGED <<jsonvars, runvars, toolvars, opsvars>>
    /\ Len(scrape_runs) < limit
    /\ c \in DOMAIN clients
    /\ scrape_runs' = Append(scrape_runs, NewRun("client_following", c, <<>>))
    /\ UNCHANGED <<pages, clients, client_following, page_profiles, running,
                   pc, job, following_list, todo, counts, db_faults, following_max,
                   sync_pc, all_pages, needs_update, sync_clean>>

trigger_profile_scrape(p, limit) ==
    /\ UNCHANGED <<jsonvars, runvars, toolvars, opsvars>>
    /\ Len(scrape_runs) < limit
    /\ p \in DOMAIN pages
    /\ scrape_runs' = Append(scrape_runs, NewRun("profile_scrape", Null, <<p>>))
    /\ UNCHANGED <<pages, clients, client_following, page_profiles, running,
                   pc, job, following_list, todo, counts, db_faults, following_max,
                   sync_pc, all_pages, needs_update, sync_clean>>

\* ------------------------------------------------------------------------
\* workers/client_following_worker.py
\* ------------------------------------------------------------------------
syncvars == <<sync_pc, all_pages, needs_update>>

\* history: the rows recorded for the job are dropped when the job ends
ForgetRows(w) ==
    rows_before' = [rows_before EXCEPT ![w] = EmptyBag]

\* the except branch of process_job: the row is written as failed and the
\* worker goes back to its poll loop
FailJob(w, e) ==
    /\ scrape_runs' = UpdateRun(job[w], "failed", ErrorResult(e))
    /\ pc' = [pc EXCEPT ![w] = "poll"]
    /\ job' = [job EXCEPT ![w] = 0]

CF_poll_for_jobs(w) ==
    /\ UNCHANGED <<jsonvars, runvars, toolvars, opsvars>>
    /\ w \in running
    /\ pc[w] = "poll"
    /\ NextPending("client_following") # 0
    /\ job' = [job EXCEPT ![w] = NextPending("client_following")]
    /\ pc' = [pc EXCEPT ![w] = "claimed"]
    /\ UNCHANGED <<scrape_runs, pages, clients, client_following, page_profiles,
                   running, following_list, todo, counts, db_faults, following_max,
                   syncvars, sync_clean>>

\* process_job, "Mark as processing": the claim of a row read by the poll
ClaimRun_Conditional(runs, id) ==
    IF runs[id].status = "pending"
    THEN [ok |-> TRUE, runs |-> [runs EXCEPT ![id].status = "processing"]]
    ELSE [ok |-> FALSE, runs |-> runs]

ClaimRun(runs, id) ==
    [ok |-> TRUE, runs |-> [runs EXCEPT ![id].status = "processing"]]

\* the client_following rows of one client
ClientRows(table, c) ==
    LET mine == { r \in BagToSet(table) : r[1] = c }
    IN  [r \in mine |-> table[r]]

CF_mark_processing(w) ==
    /\ UNCHANGED <<jsonvars, runvars, toolvars, stagingvars, apivars,
                   scriptvars>>
    /\ w \in running
    /\ pc[w] = "claimed"
    /\ rows_before' =
          IF db_faults
          THEN [rows_before EXCEPT ![w] =
                  ClientRows(client_following, scrape_runs[job[w]].client_id)]
          ELSE rows_before
    /\ sync_overlap' = (sync_pc \notin {"idle", "done"})
    /\ LET claim == ClaimRun(scrape_runs, job[w])
       IN  /\ scrape_runs' = claim.runs
           /\ IF claim.ok
              THEN /\ pc' = [pc EXCEPT ![w] = "processing"]
                   /\ job' = job
              ELSE /\ pc' = [pc EXCEPT ![w] = "poll"]
                   /\ job' = [job EXCEPT ![w] = 0]
    /\ UNCHANGED <<pages, clients, client_following, page_profiles,
                   running, following_list, todo, counts, db_faults, following_max,
                   syncvars, sync_clean>>

\* process_job: scrape_following returns the list, or None and the job fails
CF_scrape_following(w) ==
    /\ UNCHANGED <<jsonvars, runvars, toolvars, stagingvars, apivars,
                   scriptvars, sync_overlap>>
    /\ w \in running
    /\ pc[w] = "processing"
    /\ \/ \* scrape_following returned None
          /\ FailJob(w, "Failed to scrape following list")
          /\ ForgetRows(w)
          /\ UNCHANGED following_list
       \/ \E fl \in SeqsUpTo(Accounts, following_max) :
             /\ following_list' = [following_list EXCEPT ![w] = fl]
             /\ pc' = [pc EXCEPT ![w] = "store_pages"]
             /\ UNCHANGED <<scrape_runs, job, rows_before>>
    /\ UNCHANGED <<pages, clients, client_following, page_profiles,
                   running, todo, counts, db_faults, following_max, syncvars, sync_clean>>

NewPage(a) ==
    [ig_username |-> a.username, full_name |-> a.full_name,
     follower_count |-> 0, client_count |-> 0, last_scrape_status |-> Null]

\* store_following_results, "ensure all pages exist": one row is created for
\* every account of the list whose username has no page yet
PagesToCreate(fl) ==
    LET existing_usernames == { pages[i].ig_username : i \in DOMAIN pages }
        missing == SelectSeq(fl, LAMBDA a : a.username \notin existing_usernames)
    IN  [i \in 1..Len(missing) |-> NewPage(missing[i])]

CF_store_pages(w) ==
    /\ UNCHANGED <<jsonvars, runvars, toolvars, opsvars>>
    /\ w \in running
    /\ pc[w] = "store_pages"
    /\ pages' = pages \o PagesToCreate(following_list[w])
    /\ pc' = [pc EXCEPT ![w] = "delete"]
    /\ UNCHANGED <<scrape_runs, clients, client_following, page_profiles,
                   running, job, following_list, todo, counts, db_faults, following_max,
                   syncvars, sync_clean>>

\* store_following_results, "First delete existing relationships"
CF_delete_relationships(w) ==
    /\ UNCHANGED <<jsonvars, runvars, toolvars, opsvars>>
    /\ w \in running
    /\ pc[w] = "delete"
    /\ client_following' =
          DeleteRelationships(client_following, scrape_runs[job[w]].client_id)
    /\ sync_clean' = (sync_clean /\ client_following' = client_following)
    /\ pc' = [pc EXCEPT ![w] = "insert"]
    /\ UNCHANGED <<scrape_runs, pages, clients, page_profiles,
                   running, job, following_list, todo, counts, db_faults, following_max,
                   syncvars>>

\* the username -> id mappings the select of the batch can give: a username
\* stored on several page rows maps to any one of them
PageIdMaps(fl) ==
    LET found == { a.username : a \in Range(fl) }
                     \cap { pages[i].ig_username : i \in DOMAIN pages }
    IN  { m \in [found -> DOMAIN pages] :
             \A u \in found : pages[m[u]].ig_username = u }

Relationships(c, fl, page_id_map) ==
    LET known == SelectSeq(fl, LAMBDA a : a.username \in DOMAIN page_id_map)
    IN  [i \in 1..Len(known) |-> <<c, page_id_map[known[i].username]>>]

\* store_following_results, "Batch insert new relationships"
CF_insert_relationships(w) ==
    /\ UNCHANGED <<jsonvars, runvars, toolvars, stagingvars, apivars,
                   scriptvars, sync_overlap>>
    /\ w \in running
    /\ pc[w] = "insert"
    /\ \E page_id_map \in PageIdMaps(following_list[w]) :
          LET rows == Relationships(scrape_runs[job[w]].client_id,
                                    following_list[w], page_id_map)
              ins  == IF rows = <<>> THEN [ok |-> TRUE, table |-> client_following]
                      ELSE InsertRelationships(client_following, rows)
          IN  IF ins.ok
              THEN /\ client_following' = ins.table
                   /\ pc' = [pc EXCEPT ![w] = "targeted"]
                   /\ UNCHANGED <<scrape_runs, job, following_list,
                                  rows_before>>
              ELSE /\ FailJob(w, "duplicate key")
                   /\ ForgetRows(w)
                   /\ following_list' = [following_list EXCEPT ![w] = <<>>]
                   /\ UNCHANGED client_following
    /\ sync_clean' = (sync_clean /\ client_following' = client_following)
    /\ UNCHANGED <<pages, clients, page_profiles, running,
                   todo, counts, db_faults, following_max, syncvars>>

\* _scrape_targeted_follower_counts: hotlist pages without a category (no
\* operation of the model sets a category) and pages with 2+ clients
IsTargeted(page) ==
    LET text == lower(page.ig_username) \o <<" ">> \o lower(page.full_name)
    IN  \/ \E keyword \in HOTLIST_KEYWORDS : IsSubstring(keyword, text)
        \/ page.client_count >= 2

TargetedUsernames(fl) ==
    { pages[i].ig_username :
        i \in { k \in DOMAIN pages :
                  /\ pages[k].ig_username \in { a.username : a \in Range(fl) }
                  /\ IsTargeted(pages[k]) } }

CF_scrape_targeted_follower_counts(w) ==
    /\ UNCHANGED <<jsonvars, runvars, toolvars, opsvars>>
    /\ w \in running
    /\ pc[w] = "targeted"
    /\ \/ \* no targeted page, or the scraping call raised: nothing is written
          UNCHANGED pages
       \/ \E fc \in FollowerCounts :
             pages' = [i \in DOMAIN pages |->
                         IF pages[i].ig_username
                               \in TargetedUsernames(following_list[w])
                         THEN [pages[i] EXCEPT !.follower_count = fc]
                         ELSE pages[i]]
    /\ pc' = [pc EXCEPT ![w] = "complete"]
    /\ UNCHANGED <<scrape_runs, clients, client_following, page_profiles,
                   running, job, following_list, todo, counts, db_faults, following_max,
                   syncvars, sync_clean>>

\* process_job, "Update scrape run as completed"
CF_complete(w) ==
    /\ UNCHANGED <<jsonvars, runvars, toolvars, opsvars>>
    /\ w \in running
    /\ pc[w] = "complete"
    /\ scrape_runs' = UpdateRun(job[w], "completed",
                         CountsResult(Len(following_list[w]), Len(following_list[w]), 0))
    /\ pc' = [pc EXCEPT ![w] = "update_client"]
    /\ UNCHANGED <<pages, clients, client_following, page_profiles,
                   running, job, following_list, todo, counts, db_faults, following_max,
                   syncvars, sync_clean>>

\* process_job, "Update client following_count"
CF_update_client(w) ==
    /\ UNCHANGED <<jsonvars, runvars, toolvars, stagingvars, apivars,
                   scriptvars, sync_overlap>>
    /\ w \in running
    /\ pc[w] = "update_client"
    /\ clients' = [clients EXCEPT ![scrape_runs[job[w]].client_id].following_count
                                     = Len(following_list[w])]
    /\ pc' = [pc EXCEPT ![w] = "poll"]
    /\ job' = [job EXCEPT ![w] = 0]
    /\ following_list' = [following_list EXCEPT ![w] = <<>>]
    /\ ForgetRows(w)
    /\ UNCHANGED <<scrape_runs, pages, client_following, page_profiles,
                   running, todo, counts, db_faults, following_max, syncvars, sync_clean>>

\* process_job, except branch taken because a database call inside the try
\* block raised
CF_exception(w) ==
    /\ UNCHANGED <<jsonvars, runvars, toolvars, stagingvars, apivars,
                   scriptvars, sync_overlap>>
    /\ w \in running
    /\ db_faults
    /\ pc[w] \in {"claimed", "processing", "store_pages", "delete", "insert",
                  "complete", "update_client"}
    /\ FailJob(w, "database error")
    /\ ForgetRows(w)
    /\ following_list' = [following_list EXCEPT ![w] = <<>>]
    /\ UNCHANGED <<pages, clients, client_following, page_profiles,
                   running, todo, counts, db_faults, following_max, syncvars, sync_clean>>

\* ------------------------------------------------------------------------
\* workers/profile_scrape_worker.py
\* ------------------------------------------------------------------------
Snapshots == {"bio1", "bio2"}

P_poll_for_jobs(w) ==
    /\ UNCHANGED <<jsonvars, runvars, toolvars, opsvars>>
    /\ w \in running
    /\ pc[w] = "poll"
    /\ NextPending("profile_scrape") # 0
    /\ job' = [job EXCEPT ![w] = NextPending("profile_scrape")]
    /\ pc' = [pc EXCEPT ![w] = "claimed"]
    /\ UNCHANGED <<scrape_runs, pages, clients, client_following, page_profiles,
                   running, following_list, todo, counts, db_faults, following_max,
                   syncvars, sync_clean>>

\* process_job: return when the job has no page_ids, else "Mark as processing"
P_mark_processing(w) ==
    /\ UNCHANGED <<jsonvars, runvars, toolvars, opsvars>>
    /\ w \in running
    /\ pc[w] = "claimed"
    /\ IF scrape_runs[job[w]].page_ids = <<>>
       THEN /\ pc' = [pc EXCEPT ![w] = "poll"]
            /\ job' = [job EXCEPT ![w] = 0]
            /\ UNCHANGED scrape_runs
       ELSE LET claim == ClaimRun(scrape_runs, job[w])
            IN  /\ scrape_runs' = claim.runs
                /\ IF claim.ok
                   THEN /\ pc' = [pc EXCEPT ![w] = "processing"]
                        /\ job' = job
                   ELSE /\ pc' = [pc EXCEPT ![w] = "poll"]
                        /\ job' = [job EXCEPT ![w] = 0]
    /\ UNCHANGED <<pages, clients, client_following, page_profiles,
                   running, following_list, todo, counts, db_faults, following_max,
                   syncvars, sync_clean>>

\* process_job, "Get pages to scrape": .in_("id", page_ids)
P_get_pages(w) ==
    /\ UNCHANGED <<jsonvars, runvars, toolvars, opsvars>>
    /\ w \in running
    /\ pc[w] = "processing"
    /\ todo' = [todo EXCEPT ![w] =
                  SelectSeq(scrape_runs[job[w]].page_ids,
                            LAMBDA id : id \in DOMAIN pages)]
    /\ counts' = [counts EXCEPT ![w] = <<0, 0>>]
    /\ pc' = [pc EXCEPT ![w] = "scraping"]
    /\ UNCHANGED <<scrape_runs, pages, clients, client_following, page_profiles,
                   running, job, following_list, db_faults, following_max, syncvars, sync_clean>>

Upsert(table, key, value) ==
    [k \in DOMAIN table \cup {key} |-> IF k = key THEN value ELSE table[k]]

\* scrape_profile of the next page of the job: the profile is stored and the
\* page marked success, or the page is marked failed and the error counted
P_scrape_profile(w) ==
    /\ UNCHANGED <<jsonvars, runvars, toolvars, opsvars>>
    /\ w \in running
    /\ pc[w] = "scraping"
    /\ todo[w] # <<>>
    /\ LET id == Head(todo[w])
       IN  \/ \E snap \in Snapshots, fc \in FollowerCounts :
                /\ page_profiles' = Upsert(page_profiles, id, snap)
                /\ pages' = [pages EXCEPT ![id].last_scrape_status = "success",
                                          ![id].follower_count = fc]
                /\ counts' = [counts EXCEPT ![w] = <<@[1] + 1, @[2]>>]
           \/ /\ pages' = [pages EXCEPT ![id].last_scrape_status = "failed"]
              /\ counts' = [counts EXCEPT ![w] = <<@[1], @[2] + 1>>]
              /\ UNCHANGED page_profiles
    /\ todo' = [todo EXCEPT ![w] = Tail(@)]
    /\ UNCHANGED <<scrape_runs, clients, client_following,
                   running, pc, job, following_list, db_faults, following_max,
                   syncvars, sync_clean>>

\* process_job, "Update scrape run as completed"
P_complete(w) ==
    /\ UNCHANGED <<jsonvars, runvars, toolvars, opsvars>>
    /\ w \in running
    /\ pc[w] = "scraping"
    /\ todo[w] = <<>>
    /\ scrape_runs' = UpdateRun(job[w], "completed",
                         CountsResult(counts[w][1] + counts[w][2],
                                      counts[w][1], counts[w][2]))
    /\ pc' = [pc EXCEPT ![w] = "poll"]
    /\ job' = [job EXCEPT ![w] = 0]
    /\ counts' = [counts EXCEPT ![w] = <<0, 0>>]
    /\ UNCHANGED <<pages, clients, client_following, page_profiles,
                   running, following_list, todo, db_faults, following_max,
                   syncvars, sync_clean>>

\* process_job, except branch taken because a database call inside the try
\* block raised
P_exception(w) ==
    /\ UNCHANGED <<jsonvars, runvars, toolvars, opsvars>>
    /\ w \in running
    /\ db_faults
    /\ \/ pc[w] = "claimed" /\ scrape_runs[job[w]].page_ids # <<>>
       \/ pc[w] \in {"processing", "scraping"}
    /\ FailJob(w, "database error")
    /\ todo' = [todo EXCEPT ![w] = <<>>]
    /\ counts' = [counts EXCEPT ![w] = <<0, 0>>]
    /\ UNCHANGED <<pages, clients, client_following, page_profiles,
                   running, following_list, db_faults, following_max, syncvars, sync_clean>>

\* ------------------------------------------------------------------------
\* workers/sync_client_counts.py
\* ------------------------------------------------------------------------
\* "Get all page IDs": select id, client_count
Sync_read_pages ==
    /\ UNCHANGED <<jsonvars, runvars, toolvars, stagingvars, apivars,
                   scriptvars, rows_before>>
    /\ sync_overlap' = (\E w \in running \cap CFWorkers :
                            pc[w] \notin {"poll", "claimed"})
    /\ sync_pc \in {"idle", "done"}
    /\ all_pages' = [i \in DOMAIN pages |-> pages[i].client_count]
    /\ needs_update' = <<>>
    /\ sync_pc' = "read_relationships"
    /\ sync_clean' = TRUE
    /\ UNCHANGED <<scrape_runs, pages, clients, client_following, page_profiles,
                   running, pc, job, following_list, todo, counts, db_faults, following_max>>

\* "Count relationships per page": one per client_following row
CountMap(rows, page_id) ==
    LET hits == { r \in BagToSet(rows) : r[2] = page_id }
        RECURSIVE Sum(_)
        Sum(S) == IF S = {} THEN 0
                  ELSE LET r == CHOOSE x \in S : TRUE
                       IN  CopiesIn(r, rows) + Sum(S \ {r})
    IN  Sum(hits)

\* "Update pages where count doesn't match"
RECURSIVE NeedsUpdate_OnlyCounted(_, _, _)
NeedsUpdate_OnlyCounted(snapshot, rows, i) ==
    IF i > Len(snapshot) THEN <<>>
    ELSE (IF CountMap(rows, i) # 0 /\ snapshot[i] # CountMap(rows, i)
          THEN << <<i, CountMap(rows, i)>> >> ELSE <<>>)
         \o NeedsUpdate_OnlyCounted(snapshot, rows, i + 1)

RECURSIVE NeedsUpdate(_, _, _)
NeedsUpdate(snapshot, rows, i) ==
    IF i > Len(snapshot) THEN <<>>
    ELSE (IF snapshot[i] # CountMap(rows, i)
          THEN << <<i, CountMap(rows, i)>> >> ELSE <<>>)
         \o NeedsUpdate(snapshot, rows, i + 1)

Sync_read_relationships ==
    /\ UNCHANGED <<jsonvars, runvars, toolvars, opsvars>>
    /\ sync_pc = "read_relationships"
    /\ needs_update' = NeedsUpdate(all_pages, client_following, 1)
    /\ all_pages' = <<>>
    /\ sync_pc' = "update"
    /\ UNCHANGED <<scrape_runs, pages, clients, client_following, page_profiles,
                   running, pc, job, following_list, todo, counts, db_faults, following_max,
                   sync_clean>>

\* "Batch update": one update call per page of needs_update
Sync_update_page ==
    /\ UNCHANGED <<jsonvars, runvars, toolvars, opsvars>>
    /\ sync_pc = "update"
    /\ needs_update # <<>>
    /\ pages' = [pages EXCEPT ![Head(needs_update)[1]].client_count
                                 = Head(needs_update)[2]]
    /\ needs_update' = Tail(needs_update)
    /\ UNCHANGED <<scrape_runs, clients, client_following, page_profiles,
                   running, pc, job, following_list, todo, counts, db_faults, following_max,
                   sync_pc, all_pages, sync_clean>>

Sync_finish ==
    /\ UNCHANGED <<jsonvars, runvars, toolvars, opsvars>>
    /\ sync_pc = "update"
    /\ needs_update = <<>>
    /\ sync_pc' = "done"
    /\ UNCHANGED <<scrape_runs, pages, clients, client_following, page_profiles,
                   running, pc, job, following_list, todo, counts, db_faults, following_max,
                   all_pages, needs_update, sync_clean>>

\* ------------------------------------------------------------------------
\* main.py: the JSON store (clients_data.json)
\* ------------------------------------------------------------------------
max_retries == 3

\* profile_data of a page: None until scrape_profiles.py stores a snapshot
\* or a failure record; last_attempt is -1 where the key is absent
ProfileNone ==
    [kind |-> "None", profile_pic_url |-> FALSE, profile_pic_base64 |-> FALSE,
     bio |-> Null, failed |-> FALSE, last_attempt |-> -1,
     consecutive_failures |-> 0, long_term_failed |-> FALSE]

Has(seq, u) == \E i \in DOMAIN seq : seq[i].username = u

IndexOf(seq, u) == CHOOSE i \in DOMAIN seq : seq[i].username = u

Usernames(seq) == [i \in DOMAIN seq |-> seq[i].username]

EmptyStore == [clients |-> <<>>, pages |-> <<>>]

NewJsonPage(page) ==
    [username |-> page.username, full_name |-> page.full_name,
     follower_count |-> page.follower_count, clients_following |-> <<>>,
     profile_data |-> ProfileNone]

\* _update_pages_database
RECURSIVE update_pages_database(_, _, _)
update_pages_database(ps, client_username, fl) ==
    IF fl = <<>> THEN ps
    ELSE LET page == Head(fl)
             ps1  == IF ~Has(ps, page.username)
                     THEN Append(ps, NewJsonPage(page)) ELSE ps
             i    == IndexOf(ps1, page.username)
             ps2  == [ps1 EXCEPT
                        ![i].clients_following =
                            IF client_username \in Range(@) THEN @
                            ELSE Append(@, client_username),
                        ![i].follower_count = page.follower_count]
         IN  update_pages_database(ps2, client_username, Tail(fl))

\* add_client: the store with the new client
StoreAddClient(store, u) ==
    [store EXCEPT !.clients =
        Append(@, [username |-> u, following |-> <<>>, following_count |-> 0])]

\* scrape_client_following, "Success! Update client data"
StoreScrape(store, u, fl) ==
    [clients |-> [store.clients EXCEPT
                     ![IndexOf(store.clients, u)].following = fl,
                     ![IndexOf(store.clients, u)].following_count = Len(fl)],
     pages |-> update_pages_database(store.pages, u, fl)]

\* last_error: None, or the search terms its message holds
NoError == [given |-> FALSE, terms |-> {}]

ErrorWith(terms) == [given |-> TRUE, terms |-> terms]

\* the call in progress: attempt is the number of the scraper call, and
\* empty_results (history) the calls so far that returned no account;
\* returned is the value of the last call that ended
Idle == [op |-> "idle", client |-> Null, attempt |-> 0,
         last_error |-> NoError, empty_results |-> 0, returned |-> Null]

NoBatch == [active |-> FALSE, queue |-> <<>>, total |-> 0,
            succeeded |-> <<>>, failed |-> <<>>]

add_client(u) ==
    /\ UNCHANGED <<dbvars, runvars, toolvars, opsvars>>
    /\ cli.op = "idle"
    /\ ~batch.active
    /\ ~Has(clients_data.clients, u)
    /\ clients_data' = StoreAddClient(clients_data, u)
    /\ UNCHANGED <<cli, batch>>

\* scrape_client_following returns: scrape_all_clients files the client under
\* succeeded or failed and moves on to the next one
Return(ok) ==
    /\ cli' = [Idle EXCEPT !.returned = IF ok THEN "list" ELSE "None"]
    /\ batch' = IF ~batch.active THEN batch
                ELSE IF ok
                THEN [batch EXCEPT !.queue = Tail(@),
                                   !.succeeded = Append(@, cli.client)]
                ELSE [batch EXCEPT !.queue = Tail(@),
                                   !.failed = Append(@, cli.client)]

\* scrape_client_following up to its first attempt: validate_account
scrape_client_following_begin(u) ==
    /\ UNCHANGED <<dbvars, runvars, toolvars, opsvars>>
    /\ cli.op = "idle"
    /\ Has(clients_data.clients, u)
    /\ IF batch.active THEN batch.queue # <<>> /\ u = Head(batch.queue) ELSE TRUE
    /\ \/ \* the account is not found, private or incomplete
          /\ cli' = [Idle EXCEPT !.returned = "None"]
          /\ batch' = IF ~batch.active THEN batch
                      ELSE [batch EXCEPT !.queue = Tail(@),
                                         !.failed = Append(@, u)]
       \/ /\ cli' = [Idle EXCEPT !.op = "scraping", !.client = u,
                                 !.attempt = 1]
          /\ UNCHANGED batch
    /\ UNCHANGED clients_data

\* the end of one iteration of the retry loop without a result
Retry_OnceMore(error, empty) ==
    IF cli.attempt <= max_retries
    THEN /\ cli' = [cli EXCEPT !.attempt = @ + 1, !.last_error = error,
                               !.empty_results = @ + empty]
         /\ UNCHANGED batch
    ELSE Return(FALSE)

Retry(error, empty) ==
    IF cli.attempt < max_retries
    THEN /\ cli' = [cli EXCEPT !.attempt = @ + 1, !.last_error = error,
                               !.empty_results = @ + empty]
         /\ UNCHANGED batch
    ELSE Return(FALSE)

\* the terms the except branches search the error message for: "401" stands
\* for '"401" in error_msg or "unauthorized" in error_msg.lower()', "403"
\* for "403" or "blocked"; a rate limit is handled as any other error
Terms == {"token is not valid", "401", "403"}

\* what one call of the actor and the read of its dataset give, when it is
\* not a list of accounts: no account, an exception of the dataset read, or
\* an exception of the call
Outcomes ==
    { [kind |-> "empty", terms |-> {}] }
       \cup { [kind |-> k, terms |-> t] :
                 k \in {"dataset_error", "exception"}, t \in SUBSET Terms }

\* one attempt of scrape_client_following
scrape_client_following_attempt ==
    /\ UNCHANGED <<dbvars, runvars, toolvars, opsvars>>
    /\ cli.op = "scraping"
    /\ \/ \E fl \in ScrapedLists \ {<<>>} :
             /\ clients_data' = StoreScrape(clients_data, cli.client, fl)
             /\ Return(TRUE)
       \/ \E outcome \in Outcomes :
             /\ UNCHANGED clients_data
             /\ IF outcome.kind = "empty"
                THEN IF cli.attempt = 1
                     THEN Retry(ErrorWith({}), 1)
                     ELSE Return(FALSE)
                ELSE IF outcome.kind = "dataset_error"
                        /\ "401" \in outcome.terms
                THEN Return(FALSE)
                ELSE IF "token is not valid" \in outcome.terms
                THEN IF cli.attempt >= 2
                     THEN Return(FALSE)
                     ELSE Retry(ErrorWith(outcome.terms), 0)
                ELSE IF "401" \in outcome.terms
                THEN Return(FALSE)
                ELSE IF "403" \in outcome.terms
                THEN IF cli.attempt >= 2
                     THEN Return(FALSE)
                     ELSE Retry(ErrorWith(outcome.terms), 0)
                ELSE Retry(ErrorWith(outcome.terms), 0)

scrape_all_clients_start ==
    /\ UNCHANGED <<dbvars, runvars, toolvars, opsvars>>
    /\ cli.op = "idle"
    /\ ~batch.active
    /\ batch' = [active |-> TRUE, queue |-> Usernames(clients_data.clients),
                 total |-> Len(clients_data.clients),
                 succeeded |-> <<>>, failed |-> <<>>]
    /\ UNCHANGED <<clients_data, cli>>

\* scrape_all_clients, "Final summary"
scrape_all_clients_finish ==
    /\ UNCHANGED <<dbvars, runvars, toolvars, opsvars>>
    /\ cli.op = "idle"
    /\ batch.active
    /\ batch.queue = <<>>
    /\ batch' = [batch EXCEPT !.active = FALSE]
    /\ UNCHANGED <<clients_data, cli>>

\* ------------------------------------------------------------------------
\* scrape_profiles.py
\* ------------------------------------------------------------------------
CONSECUTIVE_FAILURE_THRESHOLD == 5
LONG_TERM_FAILURE_RETRY_DAYS == 30
MinutesPerDay == 1440
MinutesPerHour == 60
SaveEvery == 10

\* the moments of the clock: around one hour and around thirty days after 0
TimePoints == {0, 59, 60, 61, 43199, 43200}

matches_hotlist(page_data) ==
    LET text == lower(page_data.username) \o <<" ">> \o lower(page_data.full_name)
    IN  \E keyword \in HOTLIST_KEYWORDS : IsSubstring(lower(keyword), text)

\* prioritize_pages: the tier of one page
Tier(page_data) ==
    LET client_count == Len(page_data.clients_following)
        is_hotlist == matches_hotlist(page_data)
    IN  IF client_count >= 2 /\ is_hotlist THEN 1
        ELSE IF is_hotlist THEN 2
        ELSE IF client_count >= 2 THEN 3
        ELSE 4

\* the same with each tier in the reverse of the input order
prioritize_pages_TiersReversed(ps, to_scrape) ==
    LET tagged == [i \in DOMAIN to_scrape |->
                     <<to_scrape[i], Tier(ps[IndexOf(ps, to_scrape[i])])>>]
        backwards == [i \in DOMAIN tagged |-> tagged[Len(tagged) + 1 - i]]
        tier(t) == SelectSeq(backwards, LAMBDA e : e[2] = t)
    IN  tier(1) \o tier(2) \o tier(3) \o tier(4)

\* prioritize_pages: tier_1 + tier_2 + tier_3 + tier_4 as (username, tier)
prioritize_pages(ps, to_scrape) ==
    LET tagged == [i \in DOMAIN to_scrape |->
                     <<to_scrape[i], Tier(ps[IndexOf(ps, to_scrape[i])])>>]
        tier(t) == SelectSeq(tagged, LAMBDA e : e[2] = t)
    IN  tier(1) \o tier(2) \o tier(3) \o tier(4)

Truthy(profile_data) == profile_data.kind # "None"

Age(profile_data, t) == t - profile_data.last_attempt

\* priority_scrape, "Find pages that need scraping": TRUE when the loop
\* continues past the page without appending it
priority_scrape_skips_Inclusive(profile_data, t) ==
    \/ /\ Truthy(profile_data)
       /\ profile_data.profile_pic_url
       /\ profile_data.profile_pic_base64
    \/ /\ Truthy(profile_data)
       /\ profile_data.failed
       /\ profile_data.last_attempt # -1
       /\ IF profile_data.long_term_failed
          THEN Age(profile_data, t) <= LONG_TERM_FAILURE_RETRY_DAYS * MinutesPerDay
          ELSE Age(profile_data, t) <= MinutesPerHour

priority_scrape_skips(profile_data, t) ==
    \/ /\ Truthy(profile_data)
       /\ profile_data.profile_pic_url
       /\ profile_data.profile_pic_base64
    \/ /\ Truthy(profile_data)
       /\ profile_data.failed
       /\ profile_data.last_attempt # -1
       /\ IF profile_data.long_term_failed
          THEN Age(profile_data, t) < LONG_TERM_FAILURE_RETRY_DAYS * MinutesPerDay
          ELSE Age(profile_data, t) < MinutesPerHour

\* scrape_all, "Find pages that need scraping"
scrape_all_skips(profile_data, t) ==
    \/ /\ Truthy(profile_data)
       /\ profile_data.profile_pic_url
       /\ profile_data.profile_pic_base64
    \/ /\ Truthy(profile_data)
       /\ profile_data.failed
       /\ profile_data.last_attempt # -1
       /\ IF profile_data.long_term_failed
          THEN Age(profile_data, t) < LONG_TERM_FAILURE_RETRY_DAYS * MinutesPerDay
          ELSE Age(profile_data, t) < MinutesPerHour

\* re_scrape_priority, "Only skip if it's a long-term failure"
re_scrape_priority_skips_Routine(profile_data, t) ==
    priority_scrape_skips(profile_data, t)

re_scrape_priority_skips(profile_data, t) ==
    /\ Truthy(profile_data)
    /\ profile_data.failed
    /\ profile_data.long_term_failed
    /\ profile_data.last_attempt # -1
    /\ Age(profile_data, t) < LONG_TERM_FAILURE_RETRY_DAYS * MinutesPerDay

\* re_scrape_all, "Only skip if it's a long-term failure"
re_scrape_all_skips(profile_data, t) ==
    /\ Truthy(profile_data)
    /\ profile_data.failed
    /\ profile_data.long_term_failed
    /\ profile_data.last_attempt # -1
    /\ Age(profile_data, t) < LONG_TERM_FAILURE_RETRY_DAYS * MinutesPerDay

Modes == {"priority_scrape", "scrape_all", "re_scrape_priority", "re_scrape_all"}

Skips(m, profile_data, t) ==
    CASE m = "priority_scrape"    -> priority_scrape_skips(profile_data, t)
      [] m = "scrape_all"         -> scrape_all_skips(profile_data, t)
      [] m = "re_scrape_priority" -> re_scrape_priority_skips(profile_data, t)
      [] m = "re_scrape_all"      -> re_scrape_all_skips(profile_data, t)

\* the pages_to_scrape list of a run, in the order of the pages dict
PagesToScrape(m, ps, t) ==
    Usernames(SelectSeq(ps, LAMBDA page : ~Skips(m, page.profile_data, t)))

\* the list handed to scrape_pages: the priority entry points keep tiers 1-3
PrioritizedList(m, ps, t) ==
    LET prioritized == prioritize_pages(ps, PagesToScrape(m, ps, t))
    IN  IF m \in {"priority_scrape", "re_scrape_priority"}
        THEN SelectSeq(prioritized, LAMBDA e : e[2] <= 3)
        ELSE prioritized

NoProgress == [i |-> 0, successful |-> 0, failed |-> 0, failed_pages |-> <<>>]

InitRunAt(store) ==
    /\ clients_data = store
    /\ cli = Idle
    /\ batch = NoBatch
    /\ now = 0
    /\ run_pc = "idle"
    /\ mode = Null
    /\ data = <<>>
    /\ pages_to_scrape = <<>>
    /\ prioritized_list = <<>>
    /\ progress = NoProgress
    /\ fails_since = [a \in { acc.username : acc \in Accounts } |-> 0]

\* one of the four entry points, up to its call of scrape_pages; it returns
\* at once when no page is left to scrape
start_run(m) ==
    /\ UNCHANGED <<dbvars, toolvars, opsvars>>
    /\ run_pc # "running"
    /\ mode' = m
    /\ pages_to_scrape' = PagesToScrape(m, clients_data.pages, now)
    /\ prioritized_list' = PrioritizedList(m, clients_data.pages, now)
    /\ data' = clients_data.pages
    /\ progress' = NoProgress
    /\ run_pc' = IF PrioritizedList(m, clients_data.pages, now) = <<>>
                 THEN "done" ELSE "running"
    /\ UNCHANGED <<jsonvars, now, fails_since>>

priority_scrape == start_run("priority_scrape")

scrape_all == start_run("scrape_all")

re_scrape_priority == start_run("re_scrape_priority")

re_scrape_all == start_run("re_scrape_all")

\* what categorizer.scrape_page_content returns for a page
SuccessData(with_base64) ==
    [kind |-> "profile", profile_pic_url |-> TRUE,
     profile_pic_base64 |-> with_base64, bio |-> "bio",
     failed |-> FALSE, last_attempt |-> -1,
     consecutive_failures |-> 0, long_term_failed |-> FALSE]

\* scrape_pages, "Mark as failed"
FailureData(existing_data, t) ==
    LET consecutive_failures == existing_data.consecutive_failures + 1
    IN  [kind |-> "failure", profile_pic_url |-> FALSE,
         profile_pic_base64 |-> FALSE, bio |-> Null,
         failed |-> TRUE, last_attempt |-> t,
         consecutive_failures |-> consecutive_failures,
         long_term_failed |->
             consecutive_failures >= CONSECUTIVE_FAILURE_THRESHOLD]

\* "Save progress every 10 pages"
SavedPages(i, ps) ==
    IF i % SaveEvery = 0 THEN ps ELSE clients_data.pages

\* scrape_pages: one iteration of the loop over prioritized_list
scrape_pages_item ==
    /\ UNCHANGED <<dbvars, toolvars, opsvars>>
    /\ run_pc = "running"
    /\ progress.i < Len(prioritized_list)
    /\ LET i == progress.i + 1
           username == prioritized_list[i][1]
           k == IndexOf(data, username)
           existing_data == data[k].profile_data
       IN  \/ \* profile data with a picture came back
              \E with_base64 \in BOOLEAN :
                 LET acc == CHOOSE a \in Accounts : a.username = username
                     ps  == [data EXCEPT
                               ![k].profile_data = SuccessData(with_base64),
                               ![k].follower_count =
                                   IF acc.follower_count # 0
                                   THEN acc.follower_count ELSE @]
                 IN  /\ data' = ps
                     /\ progress' = [progress EXCEPT !.i = i,
                                                     !.successful = @ + 1]
                     /\ fails_since' = [fails_since EXCEPT ![username] = 0]
                     /\ clients_data' =
                           [clients_data EXCEPT !.pages = SavedPages(i, ps)]
                     /\ UNCHANGED run_pc
           \/ \* nothing came back and the page holds a dict: failure recorded
              /\ fails_since[username] < MaxFailures
              /\ Truthy(existing_data)
              /\ LET ps == [data EXCEPT ![k].profile_data =
                                           FailureData(existing_data, now)]
                 IN  /\ data' = ps
                     /\ progress' = [progress EXCEPT
                                       !.i = i, !.failed = @ + 1,
                                       !.failed_pages = Append(@, username)]
                     /\ clients_data' =
                           [clients_data EXCEPT !.pages = SavedPages(i, ps)]
              /\ fails_since' = [fails_since EXCEPT ![username] = @ + 1]
              /\ UNCHANGED run_pc
           \/ \* nothing came back and profile_data is None: the .get on None
              \* raises in the else branch and again in the except branch,
              \* and the exception leaves scrape_pages
              /\ fails_since[username] < MaxFailures
              /\ ~Truthy(existing_data)
              /\ run_pc' = "crashed"
              /\ fails_since' = [fails_since EXCEPT ![username] = @ + 1]
              /\ UNCHANGED <<data, progress, clients_data>>
    /\ UNCHANGED <<cli, batch, now, mode, pages_to_scrape, prioritized_list>>

\* scrape_pages, "Final save"
scrape_pages_finish ==
    /\ UNCHANGED <<dbvars, toolvars, opsvars>>
    /\ run_pc = "running"
    /\ progress.i = Len(prioritized_list)
    /\ clients_data' = [clients_data EXCEPT !.pages = data]
    /\ run_pc' = "done"
    /\ UNCHANGED <<cli, batch, now, mode, data, pages_to_scrape,
                   prioritized_list, progress, fails_since>>

\* time passes
Tick ==
    /\ UNCHANGED <<dbvars, jsonvars, toolvars, opsvars>>
    /\ \E t \in TimePoints : t > now /\ now' = t
    /\ UNCHANGED <<run_pc, mode, data, pages_to_scrape, prioritized_list,
                   progress, fails_since>>

\* ------------------------------------------------------------------------
\* railway_sync.py and sync_api.py: the smart merge
\* ------------------------------------------------------------------------
\* a page record maps every field to "absent" (no such key), "null" (None)
\* or a value
Absent == "absent"

CategoryFields == <<"category", "category_confidence">>

ContactFields ==
    <<"known_contact_methods", "successful_contact_method",
      "current_main_contact_method", "ig_account_for_dm",
      "promo_price", "promo_status", "website_url">>

OtherFields == <<"website_promo_info", "follower_count">>

FieldNames == Range(CategoryFields) \cup Range(ContactFields) \cup Range(OtherFields)

\* existing_pages.get(username, {})
NoFields == [f \in FieldNames |-> Absent]

\* the truth value Python gives a stored value
IsTruthy(v) == v \notin {Absent, Null}

\* dict.get(key, default) on a dict of pages
GetFields(ps, username) ==
    IF Has(ps, username) THEN ps[IndexOf(ps, username)].fields ELSE NoFields

\* railway_sync.merge_data_smart, the body of the loop over new_pages
MergedPage(existing_page_data, new_page_data) ==
    [f \in FieldNames |->
        IF f \in Range(CategoryFields)
        THEN IF existing_page_data[f] # Absent
             THEN existing_page_data[f] ELSE new_page_data[f]
        ELSE IF f \in Range(ContactFields)
        THEN IF existing_page_data[f] # Absent /\ IsTruthy(existing_page_data[f])
             THEN existing_page_data[f] ELSE new_page_data[f]
        ELSE IF f = "website_promo_info"
        THEN IF /\ existing_page_data[f] # Absent
                /\ (new_page_data[f] = Absent \/ ~IsTruthy(new_page_data[f]))
             THEN existing_page_data[f] ELSE new_page_data[f]
        ELSE new_page_data[f]]

\* railway_sync.merge_data_smart
merge_data_smart_NewPagesOnly(existing, new) ==
    [clients |-> new.clients,
     pages |-> [i \in DOMAIN new.pages |->
                  [username |-> new.pages[i].username,
                   fields |-> MergedPage(
                       GetFields(existing.pages, new.pages[i].username),
                       new.pages[i].fields)]]]

merge_data_smart(existing, new) ==
    [clients |-> new.clients,
     pages |-> [i \in DOMAIN new.pages |->
                  [username |-> new.pages[i].username,
                   fields |-> MergedPage(
                       GetFields(existing.pages, new.pages[i].username),
                       new.pages[i].fields)]]
               \o SelectSeq(existing.pages,
                            LAMBDA page : ~Has(new.pages, page.username))]

\* sync_api.merge_data_smart, the body of the loop over new_pages
ApiMergedPage_GetsExisting(existing_page_data, new_page_data) ==
    [f \in FieldNames |->
        IF f \in Range(CategoryFields) \cup Range(ContactFields)
        THEN IF existing_page_data[f] # Absent
             THEN existing_page_data[f] ELSE Null
        ELSE new_page_data[f]]

ApiMergedPage(existing_page_data, new_page_data) ==
    [f \in FieldNames |->
        IF f \in Range(CategoryFields)
        THEN IF existing_page_data[f] # Absent
             THEN existing_page_data[f] ELSE new_page_data[f]
        ELSE IF f \in Range(ContactFields)
        THEN IF existing_page_data[f] # Absent /\ IsTruthy(existing_page_data[f])
             THEN existing_page_data[f] ELSE new_page_data[f]
        ELSE IF f = "website_promo_info"
        THEN IF /\ existing_page_data[f] # Absent
                /\ (new_page_data[f] = Absent \/ ~IsTruthy(new_page_data[f]))
             THEN existing_page_data[f] ELSE new_page_data[f]
        ELSE new_page_data[f]]

\* sync_api.merge_data_smart
api_merge_data_smart_AppendsClients(existing, new) ==
    [clients |-> existing.clients \o new.clients,
     pages |-> [i \in DOMAIN new.pages |->
                  [username |-> new.pages[i].username,
                   fields |-> ApiMergedPage(
                       GetFields(existing.pages, new.pages[i].username),
                       new.pages[i].fields)]]
               \o SelectSeq(existing.pages,
                            LAMBDA page : ~Has(new.pages, page.username))]

api_merge_data_smart(existing, new) ==
    [clients |-> new.clients,
     pages |-> [i \in DOMAIN new.pages |->
                  [username |-> new.pages[i].username,
                   fields |-> ApiMergedPage(
                       GetFields(existing.pages, new.pages[i].username),
                       new.pages[i].fields)]]
               \o SelectSeq(existing.pages,
                            LAMBDA page : ~Has(new.pages, page.username))]

\* the datasets of the model: the first page takes every combination of
\* values, one value for the category fields and one for the contact fields
MergeValues == {Absent, Null, "X", "Y"}

ContactValues == {Null, "X", "Y"}

PageFields(cat, contact, wpi, fc) ==
    [f \in FieldNames |->
        IF f \in Range(CategoryFields) THEN cat
        ELSE IF f \in Range(ContactFields) THEN contact
        ELSE IF f = "website_promo_info" THEN wpi
        ELSE fc]

FirstPages ==
    { [username |-> NOIR, fields |-> PageFields(cat, contact, wpi, fc)] :
        cat \in MergeValues, contact \in ContactValues,
        wpi \in MergeValues, fc \in {"X", "Y"} }

SecondPage == [username |-> ZEN, fields |-> PageFields("X", "X", Absent, "X")]

Datasets ==
    { [clients |-> cs, pages |-> ps] :
        cs \in {<<"c1">>, <<"c1", "c2">>},
        ps \in {<<>>, <<SecondPage>>}
               \cup { <<p>> : p \in FirstPages }
               \cup { <<p, SecondPage>> : p \in FirstPages } }

NotMerged == [done |-> FALSE, clients |-> <<>>, pages |-> <<>>]

NoReport ==
    [op |-> Null, input |-> <<>>, min_clients |-> 0, category |-> Null,
     rows |-> <<>>, before |-> <<>>]

InitToolsIdle ==
    /\ data_file = [clients |-> <<>>, pages |-> <<>>]
    /\ new_data = [clients |-> <<>>, pages |-> <<>>]
    /\ previous = [clients |-> <<>>, pages |-> <<>>]
    /\ merge_result = NotMerged
    /\ posts = 0
    /\ report = NoReport

\* a call of railway_sync.merge_data_smart(existing, new)
railway_merge ==
    /\ UNCHANGED <<dbvars, jsonvars, runvars, opsvars>>
    /\ ~merge_result.done
    /\ LET m == merge_data_smart(data_file, new_data)
       IN  merge_result' = [done |-> TRUE, clients |-> m.clients, pages |-> m.pages]
    /\ UNCHANGED <<data_file, new_data, previous, posts, report>>

\* POST /sync with new_data as the body: the file is replaced by the merge,
\* or by the payload when the file holds no clients and no pages
sync_data ==
    /\ UNCHANGED <<dbvars, jsonvars, runvars, opsvars>>
    /\ posts < MaxPosts
    /\ previous' = data_file
    /\ data_file' =
          IF data_file.clients # <<>> \/ data_file.pages # <<>>
          THEN api_merge_data_smart(data_file, new_data)
          ELSE new_data
    /\ posts' = posts + 1
    /\ merge_result' = NotMerged
    /\ UNCHANGED <<new_data, report>>

\* ------------------------------------------------------------------------
\* The stored pages that the rankings read
\* ------------------------------------------------------------------------
CAB == <<"c","a","b">>
DAN == <<"d","a","n">>

\* the accounts of the stored pages: two match the hotlist, one by its
\* username and one by its full name
CatalogAccounts ==
    { [username |-> NOIR, full_name |-> <<>>, follower_count |-> 1000],
      [username |-> ZEN,  full_name |-> <<"Z","e","n">>, follower_count |-> 0],
      [username |-> CAB,  full_name |-> <<"B","r","o","w","n">>,
       follower_count |-> 2000],
      [username |-> DAN,  full_name |-> <<>>, follower_count |-> 500] }

\* promo_price is None or a number: the empty tuple or a tuple of one number
NoPrice == <<>>

\* a page of clients_data["pages"] with its followers, price and category
StoredPage(account, clients_following, promo_price, category) ==
    [username |-> account.username, full_name |-> account.full_name,
     follower_count |-> account.follower_count,
     clients_following |-> clients_following,
     profile_data |-> ProfileNone,
     promo_price |-> promo_price, category |-> category]

DistinctUsernames(seq) ==
    \A i, j \in DOMAIN seq : i # j => seq[i].username # seq[j].username

\* the stores whose pages are distinct pages of the set, in any order
StoresOf(page_set, n) ==
    { [clients |-> <<>>, pages |-> ps] :
        ps \in { s \in SeqsUpTo(page_set, n) : DistinctUsernames(s) } }

TierPages ==
    { StoredPage(a, cf, NoPrice, Null) :
        a \in CatalogAccounts, cf \in {<<"c1">>, <<"c1", "c2">>} }

\* the lists of distinct usernames of the stored pages
ScrapeLists(ps) ==
    { s \in SeqsUpTo(Range(Usernames(ps)), Len(ps)) :
        \A i, j \in DOMAIN s : i # j => s[i] # s[j] }

\* a call of prioritize_pages(pages, pages_to_scrape); the result depends on
\* the store and the arguments only, so the first call from a store stands
\* for every later one
prioritize ==
    /\ UNCHANGED <<dbvars, jsonvars, runvars, opsvars>>
    /\ report = NoReport
    /\ \E to_scrape \in ScrapeLists(clients_data.pages) :
          report' = [NoReport EXCEPT
                       !.op = "prioritize_pages",
                       !.input = to_scrape,
                       !.rows = prioritize_pages(clients_data.pages, to_scrape)]
    /\ UNCHANGED <<data_file, new_data, previous, merge_result, posts>>

\* a call of prioritize_pages on the list the last call returned
prioritize_again ==
    /\ UNCHANGED <<dbvars, jsonvars, runvars, opsvars>>
    /\ report.op = "prioritize_pages"
    /\ LET to_scrape == [i \in DOMAIN report.rows |-> report.rows[i][1]]
       IN  report' = [NoReport EXCEPT
                        !.op = "prioritize_again",
                        !.input = to_scrape,
                        !.before = report.rows,
                        !.rows = prioritize_pages(clients_data.pages, to_scrape)]
    /\ UNCHANGED <<data_file, new_data, previous, merge_result, posts>>

\* ------------------------------------------------------------------------
\* main.py and categorize_app.py: the reports
\* ------------------------------------------------------------------------
\* a quotient a / b of the code is the pair <<a, b>> with b > 0
Zero == <<0, 1>>

Greater(x, y) == x[1] * y[2] > y[1] * x[2]

\* a key of a report row that only some rows carry: <<>> or <<value>>
NoMetric == <<>>

\* list.sort, where before[i, j] says that the key of rows[i] sorts before
\* the key of rows[j]: the rows that go before a row are those of such a key
\* and those of the same key that stood before it
StableSort(rows, before) ==
    LET rank(i) ==
            Cardinality({ j \in DOMAIN rows :
                            \/ before[j, i]
                            \/ j < i /\ ~before[i, j] }) + 1
    IN  [r \in DOMAIN rows |-> rows[CHOOSE i \in DOMAIN rows : rank(i) = r]]

\* the same without the test of follower_count
CrossReferencedPage_NoTest(page_data) ==
    LET client_count == Len(page_data.clients_following)
        follower_count == page_data.follower_count
    IN  [username |-> page_data.username,
         full_name |-> page_data.full_name,
         clients_following |-> client_count,
         total_followers |-> follower_count,
         concentration |-> <<client_count, follower_count>>,
         followers_per_client |->
            IF client_count > 0 THEN <<follower_count, client_count>> ELSE Zero,
         clients |-> page_data.clients_following,
         promo_price |-> page_data.promo_price,
         clients_per_dollar |-> NoMetric,
         concentration_per_dollar |-> NoMetric,
         cost_per_client |-> NoMetric]

\* get_cross_referenced_pages: the entry of one page
CrossReferencedPage(page_data) ==
    LET client_count == Len(page_data.clients_following)
        follower_count == page_data.follower_count
    IN  [username |-> page_data.username,
         full_name |-> page_data.full_name,
         clients_following |-> client_count,
         total_followers |-> follower_count,
         concentration |->
            IF follower_count > 0 THEN <<client_count, follower_count>> ELSE Zero,
         followers_per_client |->
            IF client_count > 0 THEN <<follower_count, client_count>> ELSE Zero,
         clients |-> page_data.clients_following,
         promo_price |-> page_data.promo_price,
         clients_per_dollar |-> NoMetric,
         concentration_per_dollar |-> NoMetric,
         cost_per_client |-> NoMetric]

\* the same with the pages of exactly min_clients clients left out
get_cross_referenced_pages_Above(ps, min_clients) ==
    LET kept == SelectSeq(ps, LAMBDA page_data :
                    Len(page_data.clients_following) > min_clients)
        pages_with_multiple == [i \in DOMAIN kept |-> CrossReferencedPage(kept[i])]
    IN  StableSort(pages_with_multiple,
                   [i \in DOMAIN kept, j \in DOMAIN kept |->
                       pages_with_multiple[i].clients_following
                          > pages_with_multiple[j].clients_following])

get_cross_referenced_pages(ps, min_clients) ==
    LET kept == SelectSeq(ps, LAMBDA page_data :
                    Len(page_data.clients_following) >= min_clients)
        pages_with_multiple == [i \in DOMAIN kept |-> CrossReferencedPage(kept[i])]
    IN  StableSort(pages_with_multiple,
                   [i \in DOMAIN kept, j \in DOMAIN kept |->
                       pages_with_multiple[i].clients_following
                          > pages_with_multiple[j].clients_following])

\* the pages of the reports: one to three clients, no price, price 0 or 100
CategoryOf(account) ==
    CASE account.username = NOIR -> "FITNESS"
      [] account.username = CAB  -> "FITNESS"
      [] account.username = DAN  -> "UNKNOWN"
      [] OTHER -> Null

ReportPages ==
    { StoredPage(a, cf, price, CategoryOf(a)) :
        a \in CatalogAccounts,
        cf \in {<<"c1">>, <<"c1", "c2">>, <<"c1", "c2", "c3">>},
        price \in {NoPrice, <<0>>, <<100>>} }

MinClients == {1, 2, 3}

\* a call of get_cross_referenced_pages(min_clients); the result depends on
\* the store and the arguments only, so the first call from a store stands
\* for every later one
cross_referenced_report ==
    /\ UNCHANGED <<dbvars, jsonvars, runvars, opsvars>>
    /\ report = NoReport
    /\ \E min_clients \in MinClients :
          report' = [NoReport EXCEPT
                       !.op = "get_cross_referenced_pages",
                       !.min_clients = min_clients,
                       !.rows = get_cross_referenced_pages(clients_data.pages,
                                                           min_clients)]
    /\ UNCHANGED <<data_file, new_data, previous, merge_result, posts>>

\* calculate_roi_metrics: "promo_price is not None and promo_price > 0"
HasPositivePrice(page) ==
    page.promo_price # NoPrice /\ page.promo_price[1] > 0

\* calculate_roi_metrics: the three metrics written into a priced entry
WithRoiMetrics(page) ==
    LET price == page.promo_price[1]
    IN  [page EXCEPT
           !.clients_per_dollar = <<<<page.clients_following, price>>>>,
           !.concentration_per_dollar =
               <<<<page.concentration[1], page.concentration[2] * price>>>>,
           !.cost_per_client = <<<<price, page.clients_following>>>>]

\* calculate_roi_metrics: the list "pages" when the loop has ended
RoiPages(ps, min_clients) ==
    LET cross == get_cross_referenced_pages(ps, min_clients)
    IN  [i \in DOMAIN cross |->
            IF HasPositivePrice(cross[i]) THEN WithRoiMetrics(cross[i])
            ELSE cross[i]]

\* the same over every stored page, whatever its number of clients
calculate_roi_metrics_AllPages(ps, min_clients) ==
    LET pages_with_price == SelectSeq(RoiPages(ps, 0), HasPositivePrice)
    IN  StableSort(pages_with_price,
                   [i \in DOMAIN pages_with_price, j \in DOMAIN pages_with_price |->
                       Greater(pages_with_price[i].concentration_per_dollar[1],
                               pages_with_price[j].concentration_per_dollar[1])])

calculate_roi_metrics(ps, min_clients) ==
    LET pages_with_price ==
            SelectSeq(RoiPages(ps, min_clients), HasPositivePrice)
    IN  StableSort(pages_with_price,
                   [i \in DOMAIN pages_with_price, j \in DOMAIN pages_with_price |->
                       Greater(pages_with_price[i].concentration_per_dollar[1],
                               pages_with_price[j].concentration_per_dollar[1])])

\* a call of calculate_roi_metrics(min_clients); the result depends on
\* the store and the arguments only, so the first call from a store stands
\* for every later one
roi_report ==
    /\ UNCHANGED <<dbvars, jsonvars, runvars, opsvars>>
    /\ report = NoReport
    /\ \E min_clients \in MinClients :
          report' = [NoReport EXCEPT
                       !.op = "calculate_roi_metrics",
                       !.min_clients = min_clients,
                       !.before = RoiPages(clients_data.pages, min_clients),
                       !.rows = calculate_roi_metrics(clients_data.pages,
                                                      min_clients)]
    /\ UNCHANGED <<data_file, new_data, previous, merge_result, posts>>

\* get_pages_by_category: the entry of one page
CategoryPage(page_data) ==
    LET client_count == Len(page_data.clients_following)
        follower_count == page_data.follower_count
        promo_price == page_data.promo_price
        concentration ==
            IF follower_count > 0 THEN <<client_count, follower_count>> ELSE Zero
    IN  [username |-> page_data.username,
         client_count |-> client_count,
         follower_count |-> follower_count,
         promo_price |-> promo_price,
         concentration |-> concentration,
         followers_per_client |->
            IF client_count > 0 THEN <<follower_count, client_count>> ELSE Zero,
         concentration_per_dollar |->
            IF promo_price # NoPrice /\ promo_price[1] # 0 /\ promo_price[1] > 0
            THEN <<<<concentration[1], concentration[2] * promo_price[1]>>>>
            ELSE NoMetric]

\* the same with the two groups only, each in the order of the store
sort_key_less_GroupsOnly(x, y) ==
    LET group(page_info) ==
            IF page_info.concentration_per_dollar # NoMetric THEN 0 ELSE 1
    IN  group(x) < group(y)

\* sort_key(x) < sort_key(y) for the keys (0, -concentration_per_dollar) and
\* (1, -followers_per_client)
sort_key_less(x, y) ==
    LET has_price(page_info) == page_info.concentration_per_dollar # NoMetric
        group(page_info) == IF has_price(page_info) THEN 0 ELSE 1
        value(page_info) == IF has_price(page_info)
                            THEN page_info.concentration_per_dollar[1]
                            ELSE page_info.followers_per_client
    IN  \/ group(x) < group(y)
        \/ group(x) = group(y) /\ Greater(value(x), value(y))

get_pages_by_category(ps, category, min_clients) ==
    LET shown(page_data) ==
            /\ Len(page_data.clients_following) >= min_clients
            /\ IF category = "UNCATEGORIZED"
               THEN ~(page_data.category # Null /\ page_data.category # "UNKNOWN")
               ELSE page_data.category = category
        kept == SelectSeq(ps, shown)
        result == [i \in DOMAIN kept |-> CategoryPage(kept[i])]
    IN  StableSort(result,
                   [i \in DOMAIN kept, j \in DOMAIN kept |->
                       sort_key_less(result[i], result[j])])

Categories == {"FITNESS", "UNCATEGORIZED"}

\* a call of get_pages_by_category(data, category, min_clients); the result depends on
\* the store and the arguments only, so the first call from a store stands
\* for every later one
category_view ==
    /\ UNCHANGED <<dbvars, jsonvars, runvars, opsvars>>
    /\ report = NoReport
    /\ \E category \in Categories, min_clients \in MinClients :
          report' = [NoReport EXCEPT
                       !.op = "get_pages_by_category",
                       !.category = category,
                       !.min_clients = min_clients,
                       !.rows = get_pages_by_category(clients_data.pages,
                                                      category, min_clients)]
    /\ UNCHANGED <<data_file, new_data, previous, merge_result, posts>>

\* round(follower_count / client_count, 2), in hundredths
Round2(a, b) ==
    LET q == (100 * a) \div b
        r == (100 * a) % b
    IN  IF 2 * r > b \/ (2 * r = b /\ q % 2 = 1) THEN q + 1 ELSE q

\* routes/pages.py, _calculate_followers_per_client: the value of one page
calculate_followers_per_client(page) ==
    IF page.client_count > 0 /\ page.follower_count > 0
    THEN <<<<Round2(page.follower_count, page.client_count), 100>>>>
    ELSE NoMetric

\* the pages of the metrics: no client, one or three; no follower or some
MetricPages ==
    { StoredPage(a, cf, NoPrice, Null) :
        a \in CatalogAccounts, cf \in {<<>>, <<"c1">>, <<"c1", "c2", "c3">>} }

\* the metrics of the stored pages: get_cross_referenced_pages and, over
\* their rows of the pages table, _calculate_followers_per_client
page_metrics ==
    /\ UNCHANGED <<dbvars, jsonvars, runvars, opsvars>>
    /\ report = NoReport
    /\ \E min_clients \in {0, 1} :
          report' = [NoReport EXCEPT
                       !.op = "metrics",
                       !.min_clients = min_clients,
                       !.rows = get_cross_referenced_pages(clients_data.pages,
                                                           min_clients),
                       !.before =
                           [i \in DOMAIN clients_data.pages |->
                              calculate_followers_per_client(
                                 [client_count |->
                                     Len(clients_data.pages[i].clients_following),
                                  follower_count |->
                                     clients_data.pages[i].follower_count])]]
    /\ UNCHANGED <<data_file, new_data, previous, merge_result, posts>>

\* ------------------------------------------------------------------------
\* scripts/sync_prod_to_staging.py
\* ------------------------------------------------------------------------
\* the tables of a run, in the order of TABLES
tables_to_sync == <<"clients", "pages">>

SyncedTables == Range(tables_to_sync)

\* every table has the column id; production or staging may have notes too
ColumnSets == { {"id"}, {"id", "notes"} }

TestRow == "ffffffff"

NoSyncRun ==
    [pc |-> "off", full_sync |-> FALSE, idx |-> 0, mismatches |-> {},
     faults |-> FALSE]

NoRows == [clients |-> <<>>, pages |-> <<>>]

NoCall == [op |-> Null, known |-> FALSE, status |-> 0, before |-> NoRows]

Requests == {"r1", "r2"}

NoRequest == [kind |-> Null, user_id |-> Null, clients |-> <<>>, pc |-> "done",
              i |-> 0, status |-> 0]

InitApiIdle ==
    /\ api_db = NoRows
    /\ api_req = [r \in Requests |-> NoRequest]
    /\ api_last = NoCall

InitOpsIdle ==
    /\ prod_db = [t \in SyncedTables |-> [columns |-> {"id"}, rows |-> {}]]
    /\ staging_db = [t \in SyncedTables |-> [columns |-> {"id"}, rows |-> {}]]
    /\ sync_script = NoSyncRun
    /\ staging_log = {}
    /\ InitApiIdle

\* check_schema_compatibility: one table of the loop
check_schema_compatibility ==
    /\ UNCHANGED <<appvars, apivars>>
    /\ sync_script.pc = "check"
    /\ sync_script.idx <= Len(tables_to_sync)
    /\ LET table == tables_to_sync[sync_script.idx]
           prod_columns == prod_db[table].columns
           present == prod_columns \cap staging_db[table].columns
           missing == prod_columns \ staging_db[table].columns
           flagged == IF missing # {} THEN sync_script.mismatches \cup {table}
                      ELSE sync_script.mismatches
           next(m) == [sync_script EXCEPT !.idx = @ + 1, !.mismatches = m]
       IN  \/ \* a select raises: "Error checking schema"
              /\ sync_script.faults
              /\ sync_script' = next(sync_script.mismatches)
              /\ UNCHANGED <<staging_db, staging_log>>
           \/ \* "No data in production, skipping schema check"
              /\ prod_db[table].rows = {}
              /\ sync_script' = next(sync_script.mismatches)
              /\ UNCHANGED <<staging_db, staging_log>>
           \/ \* the columns of a staging row
              /\ prod_db[table].rows # {}
              /\ staging_db[table].rows # {}
              /\ sync_script' = next(flagged)
              /\ UNCHANGED <<staging_db, staging_log>>
           \/ \* empty staging table: the test row is inserted without the
              \* columns that staging reported missing, and deleted again
              /\ prod_db[table].rows # {}
              /\ staging_db[table].rows = {}
              /\ sync_script' = next(flagged)
              /\ \/ \* the insert fails with another error
                    UNCHANGED <<staging_db, staging_log>>
                 \/ /\ staging_log' = staging_log
                          \cup {<<"insert", table>>, <<"delete", table>>}
                    /\ UNCHANGED staging_db
                 \/ \* the clean-up raises and is passed over
                    /\ sync_script.faults
                    /\ staging_log' = staging_log \cup {<<"insert", table>>}
                    /\ staging_db' = [staging_db EXCEPT ![table].rows = {TestRow}]
    /\ UNCHANGED prod_db

\* main: the mismatches end the run, or the tables are synced
check_done ==
    /\ UNCHANGED <<appvars, apivars>>
    /\ sync_script.pc = "check"
    /\ sync_script.idx > Len(tables_to_sync)
    /\ sync_script' =
          IF sync_script.mismatches # {}
          THEN [sync_script EXCEPT !.pc = "exit"]
          ELSE [sync_script EXCEPT !.pc = "sync", !.idx = 1]
    /\ UNCHANGED <<prod_db, staging_db, staging_log>>

\* sync_table, as main calls it for one table
sync_table ==
    /\ UNCHANGED <<appvars, apivars>>
    /\ sync_script.pc = "sync"
    /\ sync_script.idx <= Len(tables_to_sync)
    /\ sync_script' = [sync_script EXCEPT !.idx = @ + 1]
    /\ LET table == tables_to_sync[sync_script.idx]
           prod_rows == prod_db[table].rows
           prod_columns == prod_db[table].columns
           staging_columns == staging_db[table].columns
       IN  \/ \* "Error fetching from production"
              /\ sync_script.faults
              /\ UNCHANGED <<staging_db, staging_log>>
           \/ \* "No rows to sync"
              /\ prod_rows = {}
              /\ UNCHANGED <<staging_db, staging_log>>
           \/ /\ prod_rows # {}
              /\ \E cleared \in IF sync_script.full_sync
                                THEN {TRUE} \cup (IF sync_script.faults
                                                  THEN {FALSE} ELSE {})
                                ELSE {FALSE} :
                 \E checked \in {TRUE} \cup (IF sync_script.faults
                                             THEN {FALSE} ELSE {}) :
                    LET kept == IF cleared THEN {} ELSE staging_db[table].rows
                        deleted == IF cleared /\ staging_db[table].rows # {}
                                   THEN {<<"delete", table>>} ELSE {}
                        mismatch == /\ checked
                                    /\ kept # {}
                                    /\ prod_columns \ staging_columns # {}
                        accepted == prod_columns \subseteq staging_columns
                    IN  IF mismatch \/ ~accepted
                        THEN \* ValueError, caught by main; or every upsert fails
                             /\ staging_db' = [staging_db EXCEPT ![table].rows = kept]
                             /\ staging_log' = staging_log \cup deleted
                        ELSE /\ staging_db' = [staging_db EXCEPT
                                                 ![table].rows = kept \cup prod_rows]
                             /\ staging_log' = staging_log \cup deleted
                                                  \cup {<<"upsert", table>>}
    /\ UNCHANGED prod_db

\* main: the summary after the last table
sync_finish ==
    /\ UNCHANGED <<appvars, apivars>>
    /\ sync_script.pc = "sync"
    /\ sync_script.idx > Len(tables_to_sync)
    /\ sync_script' = [sync_script EXCEPT !.pc = "done"]
    /\ UNCHANGED <<prod_db, staging_db, staging_log>>

\* ------------------------------------------------------------------------
\* api/app: db.py and the routes of clients and pages
\* ------------------------------------------------------------------------
Users == {"u1", "u2"}

\* db.update_row: the rows with the id and the user_id get the data; no such
\* row raises ValueError
update_row(rows, row_id, user_id) ==
    LET matched == { i \in DOMAIN rows :
                       rows[i].id = row_id /\ rows[i].user_id = user_id }
    IN  [raised |-> matched = {},
         rows |-> [i \in DOMAIN rows |->
                     IF i \in matched THEN [rows[i] EXCEPT !.notes = "edited"]
                     ELSE rows[i]]]

\* db.fetch_rows(table, {"id": row_id}, user_id)
fetch_by_id(rows, row_id, user_id) ==
    SelectSeq(rows, LAMBDA row : row.id = row_id /\ row.user_id = user_id)

\* PUT /clients/{client_id} and PUT /pages/{page_id}: without a field the row
\* is read and 404 answers a missing row; with a field update_row is called
\* and its ValueError, which nothing catches, is answered with 500
update_route(table, row_id, user_id, empty) ==
    /\ UNCHANGED <<appvars, stagingvars>>
    /\ LET rows == api_db[table]
           known == \E i \in DOMAIN rows :
                       rows[i].id = row_id /\ rows[i].user_id = user_id
           updated == update_row(rows, row_id, user_id)
       IN  IF empty
           THEN /\ api_last' =
                      [op |-> table, known |-> known, before |-> api_db,
                       status |-> IF fetch_by_id(rows, row_id, user_id) = <<>>
                                  THEN 404 ELSE 200]
                /\ UNCHANGED api_db
           ELSE /\ api_last' =
                      [op |-> table, known |-> known, before |-> api_db,
                       status |-> IF updated.raised THEN 500 ELSE 200]
                /\ api_db' = [api_db EXCEPT ![table] = updated.rows]
    /\ UNCHANGED api_req

update_client ==
    \E client_id \in {1, 2, 9}, user_id \in Users, empty \in BOOLEAN :
        update_route("clients", client_id, user_id, empty)

update_page ==
    \E page_id \in {1, 2, 9}, user_id \in Users, empty \in BOOLEAN :
        update_route("pages", page_id, user_id, empty)

\* db.fetch_rows("clients", {"ig_username": ...}, user_id)
fetch_by_username(rows, ig_username, user_id) ==
    SelectSeq(rows, LAMBDA row :
                 row.ig_username = ig_username /\ row.user_id = user_id)

\* db.insert_row("clients", data, user_id): the database gives the id
insert_row(rows, ig_username, user_id) ==
    Append(rows, [id |-> 10 + Len(rows), user_id |-> user_id,
                  ig_username |-> ig_username, notes |-> Null])

\* the handles of the requests, as the operator types them
ABC == <<"A","b","c">>

\* POST /clients/ and POST /clients/bulk arrive
send_request(r) ==
    /\ UNCHANGED <<appvars, stagingvars>>
    /\ api_req[r] = NoRequest
    /\ \E kind \in {"create", "bulk"}, user_id \in Users,
          payload \in {<<ABC>>, <<lower(ABC)>>, <<DAN, ABC>>, <<ABC, lower(ABC)>>} :
          /\ kind = "create" => Len(payload) = 1
          /\ api_req' = [api_req EXCEPT
                           ![r] = [kind |-> kind, user_id |-> user_id,
                                   clients |-> payload, pc |-> "check",
                                   i |-> 1, status |-> 0]]
    /\ UNCHANGED <<api_db, api_last>>

\* create_client: the check for an existing client; bulk_create_clients: the
\* loop "Validate all clients first"
check_existing(r) ==
    /\ UNCHANGED <<appvars, stagingvars>>
    /\ api_req[r].pc = "check"
    /\ LET req == api_req[r]
           errors == { i \in DOMAIN req.clients :
                         fetch_by_username(api_db.clients, lower(req.clients[i]),
                                           req.user_id) # <<>> }
       IN  api_req' = [api_req EXCEPT
                         ![r].pc = IF errors # {} THEN "done" ELSE "insert",
                         ![r].status = IF errors = {} THEN 0
                                       ELSE IF req.kind = "create" THEN 409
                                       ELSE 400]
    /\ UNCHANGED <<api_db, api_last>>

\* create_client and bulk_create_clients: one insert_row
insert_client(r) ==
    /\ UNCHANGED <<appvars, stagingvars>>
    /\ api_req[r].pc = "insert"
    /\ LET req == api_req[r]
       IN  /\ api_db' = [api_db EXCEPT
                           !.clients = insert_row(@, lower(req.clients[req.i]),
                                                  req.user_id)]
           /\ api_req' = [api_req EXCEPT
                            ![r].i = @ + 1,
                            ![r].pc = IF req.i = Len(req.clients)
                                      THEN "done" ELSE "insert",
                            ![r].status = IF req.i = Len(req.clients)
                                          THEN 201 ELSE 0]
    /\ UNCHANGED api_last

\* ------------------------------------------------------------------------
\* workers/smart_follower_backfill.py
\* ------------------------------------------------------------------------
MaxApiRuns == 1       \* scrape_runs rows created through the API
MaxBackfillRuns == 3  \* scrape_runs rows, those of the backfill script included

\* the orders in which a select can return the rows of a set
Orders(S) ==
    { s \in [1..Cardinality(S) -> S] :
         \A i, j \in DOMAIN s : i # j => s[i] # s[j] }

\* main, steps 1 to 5: the high-value pages without a follower count, the
\* clients that follow them, and the answer to "Continue? (yes/no)"
smart_follower_backfill_select ==
    /\ UNCHANGED <<dbvars, jsonvars, runvars, toolvars, stagingvars, apivars,
                   histvars, scrape_jobs>>
    /\ backfill.pc \in {"off", "done"}
    /\ LET targeted_page_ids ==
               { i \in DOMAIN pages :
                    pages[i].follower_count = 0 /\ IsTargeted(pages[i]) }
           client_ids ==
               { r[1] : r \in { x \in BagToSet(client_following) :
                                   x[2] \in targeted_page_ids } }
           found == client_ids \cap DOMAIN clients
       IN  \E response \in BOOLEAN, order \in Orders(found) :
              backfill' =
                 IF targeted_page_ids = {} \/ client_ids = {} \/ ~response
                 THEN [pc |-> "done", queue |-> <<>>]
                 ELSE [pc |-> "queue", queue |-> order]

\* main, "Check if already has pending/running scrape"
HasPendingScrape_Processing(client_id) ==
    \E i \in DOMAIN scrape_runs :
       /\ scrape_runs[i].client_id = client_id
       /\ scrape_runs[i].scrape_type = "client_following"
       /\ scrape_runs[i].status \in {"pending", "processing"}

HasPendingScrape(client_id) ==
    \E i \in DOMAIN scrape_runs :
       /\ scrape_runs[i].client_id = client_id
       /\ scrape_runs[i].scrape_type = "client_following"
       /\ scrape_runs[i].status \in {"pending", "running"}

\* main, "Queuing client re-scrapes": one client of the loop
smart_follower_backfill_queue ==
    /\ UNCHANGED <<jsonvars, runvars, toolvars, stagingvars, apivars,
                   histvars, scrape_jobs>>
    /\ backfill.pc = "queue"
    /\ IF backfill.queue = <<>>
       THEN /\ backfill' = [backfill EXCEPT !.pc = "done"]
            /\ UNCHANGED scrape_runs
       ELSE /\ backfill' = [backfill EXCEPT !.queue = Tail(@)]
            /\ IF HasPendingScrape(Head(backfill.queue))
               THEN UNCHANGED scrape_runs
               ELSE /\ Len(scrape_runs) < MaxBackfillRuns
                    /\ scrape_runs' = Append(scrape_runs,
                          NewRun("client_following", Head(backfill.queue), <<>>))
    /\ UNCHANGED <<pages, clients, client_following, page_profiles, running,
                   pc, job, following_list, todo, counts, db_faults,
                   following_max, sync_pc, all_pages, needs_update, sync_clean>>

\* ------------------------------------------------------------------------
\* workers/backfill_follower_counts.py
\* ------------------------------------------------------------------------
MaxQueued == 2        \* rows of the scrape_jobs table

\* "Filter to only pages with 0 or null follower_count", over the pages
\* selected with client_count >= 1
pages_needing_scrape ==
    SelectSeq([i \in DOMAIN pages |-> i],
              LAMBDA i : pages[i].client_count >= 1
                            /\ pages[i].follower_count = 0)

\* "Queue profile scrape jobs": one row per page, inserted into scrape_jobs
ScrapeJob(page_id) ==
    [page_id |-> page_id, scrape_type |-> "profile", status |-> "pending"]

backfill_follower_counts ==
    /\ UNCHANGED <<dbvars, jsonvars, runvars, toolvars, stagingvars, apivars,
                   histvars, backfill>>
    /\ Len(scrape_jobs) + Len(pages_needing_scrape) <= MaxQueued
    /\ scrape_jobs' = scrape_jobs \o
          [k \in DOMAIN pages_needing_scrape |->
              ScrapeJob(pages_needing_scrape[k])]

\* ------------------------------------------------------------------------
\* Specifications over the database
\* ------------------------------------------------------------------------
CFStep(w) ==
    \/ CF_poll_for_jobs(w)
    \/ CF_mark_processing(w)
    \/ CF_scrape_following(w)
    \/ CF_store_pages(w)
    \/ CF_delete_relationships(w)
    \/ CF_insert_relationships(w)
    \/ CF_scrape_targeted_follower_counts(w)
    \/ CF_complete(w)
    \/ CF_update_client(w)

PStep(w) ==
    \/ P_poll_for_jobs(w)
    \/ P_mark_processing(w)
    \/ P_get_pages(w)
    \/ P_scrape_profile(w)
    \/ P_complete(w)

SyncStep ==
    \/ Sync_read_pages
    \/ Sync_read_relationships
    \/ Sync_update_page
    \/ Sync_finish

\* one client_following worker; database calls may raise
InitRunIdle == InitRunAt(EmptyStore)

Init ==
    /\ InitTables
    /\ InitRunIdle
    /\ InitToolsIdle
    /\ InitOpsIdle
    /\ clients = [c \in ClientIds |-> NewClient]
    /\ running = {"w1"}
    /\ db_faults = TRUE
    /\ following_max = MaxList

Next ==
    \/ \E c \in ClientIds : trigger_client_following(c, MaxRuns)
    \/ \E w \in CFWorkers : CFStep(w) \/ CF_exception(w)

Spec == Init /\ [][Next]_vars

\* one client_following worker and the reconciliation job
InitSync ==
    /\ InitTables
    /\ InitRunIdle
    /\ InitToolsIdle
    /\ InitOpsIdle
    /\ clients = [c \in ClientIds |-> NewClient]
    /\ running = {"w1"}
    /\ db_faults = FALSE
    /\ following_max = MaxShortList

NextSync ==
    \/ \E c \in ClientIds : trigger_client_following(c, MaxRuns)
    \/ \E w \in CFWorkers : CFStep(w)
    \/ SyncStep

SpecSync == InitSync /\ [][NextSync]_vars

\* two client_following workers polling the same table, one client
InitRace ==
    /\ InitTables
    /\ InitRunIdle
    /\ InitToolsIdle
    /\ InitOpsIdle
    /\ clients = [c \in {"c1"} |-> NewClient]
    /\ running = CFWorkers
    /\ db_faults = FALSE
    /\ following_max = MaxShortList

NextRace ==
    \/ \E c \in ClientIds : trigger_client_following(c, MaxRaceRuns)
    \/ \E w \in CFWorkers : CFStep(w)

SpecRace == InitRace /\ [][NextRace]_vars

\* one worker of each job type; the database and the scraping service
\* answer every call
InitLive ==
    /\ InitTables
    /\ InitRunIdle
    /\ InitToolsIdle
    /\ InitOpsIdle
    /\ clients = [c \in {"c1"} |-> NewClient]
    /\ running = {"w1", "p1"}
    /\ db_faults = FALSE
    /\ following_max = MaxShortList

NextLive ==
    \/ \E c \in ClientIds : trigger_client_following(c, MaxRuns)
    \/ \E p \in DOMAIN pages : trigger_profile_scrape(p, MaxRuns)
    \/ \E w \in CFWorkers : CFStep(w)
    \/ \E w \in PWorkers : PStep(w)

\* a worker process that is not stopped keeps running its loop
Fairness ==
    /\ \A w \in CFWorkers : WF_vars(CFStep(w))
    /\ \A w \in PWorkers : WF_vars(PStep(w))

SpecLive == InitLive /\ [][NextLive]_vars /\ Fairness

\* the smart backfill beside one client_following worker and the API
InitBackfill ==
    /\ InitTables
    /\ InitRunIdle
    /\ InitToolsIdle
    /\ InitOpsIdle
    /\ clients = [c \in ClientIds |-> NewClient]
    /\ running = {"w1"}
    /\ db_faults = FALSE
    /\ following_max = MaxShortList

NextBackfill ==
    \/ \E c \in ClientIds : trigger_client_following(c, MaxApiRuns)
    \/ \E w \in CFWorkers : CFStep(w)
    \/ smart_follower_backfill_select
    \/ smart_follower_backfill_queue

SpecBackfill == InitBackfill /\ [][NextBackfill]_vars

\* the pages table after client_following jobs and a sync_client_counts
\* run: up to two pages, followed by a client or by none, with or without a
\* follower count
StoredPages ==
    LET rows(a) == { [NewPage(a) EXCEPT !.client_count = n,
                                         !.follower_count = fc] :
                        n \in {0, 1}, fc \in {0, 1000} }
        noir == rows(CHOOSE a \in Accounts : a.username = NOIR)
        zen  == rows(CHOOSE a \in Accounts : a.username = ZEN)
    IN  { <<p>> : p \in noir } \cup { <<p, q>> : p \in noir, q \in zen }

\* the backfill script, the API and the profile scrape worker
InitQueue ==
    /\ InitRunIdle
    /\ InitToolsIdle
    /\ InitOpsIdle
    /\ scrape_runs = <<>>
    /\ pages \in StoredPages
    /\ client_following = EmptyBag
    /\ page_profiles = <<>>
    /\ pc = [w \in Workers |-> "poll"]
    /\ job = [w \in Workers |-> 0]
    /\ following_list = [w \in CFWorkers |-> <<>>]
    /\ rows_before = [w \in CFWorkers |-> EmptyBag]
    /\ sync_overlap = FALSE
    /\ backfill = [pc |-> "off", queue |-> <<>>]
    /\ scrape_jobs = <<>>
    /\ todo = [w \in PWorkers |-> <<>>]
    /\ counts = [w \in PWorkers |-> <<0, 0>>]
    /\ sync_pc = "idle"
    /\ all_pages = <<>>
    /\ needs_update = <<>>
    /\ sync_clean = TRUE
    /\ clients = [c \in {"c1"} |-> NewClient]
    /\ running = {"p1"}
    /\ db_faults = FALSE
    /\ following_max = 0

NextQueue ==
    \/ backfill_follower_counts
    \/ \E p \in DOMAIN pages : trigger_profile_scrape(p, MaxApiRuns)
    \/ \E w \in PWorkers : PStep(w)

\* the worker process keeps running its loop
FairnessQueue == \A w \in PWorkers : WF_vars(PStep(w))

SpecQueue == InitQueue /\ [][NextQueue]_vars /\ FairnessQueue

\* ------------------------------------------------------------------------
\* Specifications over the JSON store
\* ------------------------------------------------------------------------
\* main.py: clients are added and scraped, one by one or in a batch
InitJson ==
    /\ InitNoWorkers
    /\ InitRunIdle
    /\ InitToolsIdle
    /\ InitOpsIdle

NextJson ==
    \/ \E u \in ClientIds : add_client(u)
    \/ \E u \in ClientIds : scrape_client_following_begin(u)
    \/ scrape_client_following_attempt
    \/ scrape_all_clients_start
    \/ scrape_all_clients_finish

SpecJson == InitJson /\ [][NextJson]_vars

\* single calls of scrape_client_following, without scrape_all_clients
NextScrape ==
    \/ \E u \in ClientIds : add_client(u)
    \/ \E u \in ClientIds : scrape_client_following_begin(u)
    \/ scrape_client_following_attempt

SpecScrape == InitJson /\ [][NextScrape]_vars

\* scrape_profiles.py over a store that main.py has filled: c1 follows both
\* accounts and c2 follows the second, and no page has been scraped
FilledStore ==
    LET s1 == StoreAddClient(EmptyStore, "c1")
        s2 == StoreAddClient(s1, "c2")
        s3 == StoreScrape(s2, "c1",
                <<CHOOSE a \in Accounts : a.username = NOIR,
                  CHOOSE a \in Accounts : a.username = ZEN>>)
    IN  StoreScrape(s3, "c2", <<CHOOSE a \in Accounts : a.username = ZEN>>)

InitProfiles ==
    /\ InitNoWorkers
    /\ InitRunAt(FilledStore)
    /\ InitToolsIdle
    /\ InitOpsIdle

NextProfiles ==
    \/ priority_scrape
    \/ scrape_all
    \/ re_scrape_priority
    \/ re_scrape_all
    \/ scrape_pages_item
    \/ scrape_pages_finish
    \/ Tick

SpecProfiles == InitProfiles /\ [][NextProfiles]_vars

\* the smart merge over every pair of datasets
InitMerge ==
    /\ InitNoWorkers
    /\ InitRunIdle
    /\ InitOpsIdle
    /\ data_file \in Datasets \cup {[clients |-> <<>>, pages |-> <<>>]}
    /\ new_data \in Datasets
    /\ previous = data_file
    /\ merge_result = NotMerged
    /\ posts = 0
    /\ report = NoReport

NextMerge ==
    \/ railway_merge
    \/ sync_data

SpecMerge == InitMerge /\ [][NextMerge]_vars

\* prioritize_pages over every store of up to MaxTierPages pages
InitPrioritize ==
    /\ InitNoWorkers
    /\ \E store \in StoresOf(TierPages, MaxTierPages) : InitRunAt(store)
    /\ InitToolsIdle
    /\ InitOpsIdle

NextPrioritize ==
    \/ prioritize
    \/ prioritize_again

SpecPrioritize == InitPrioritize /\ [][NextPrioritize]_vars

\* the reports over every store of up to MaxReportPages pages
InitReports ==
    /\ InitNoWorkers
    /\ \E store \in StoresOf(ReportPages, MaxReportPages) : InitRunAt(store)
    /\ InitToolsIdle
    /\ InitOpsIdle

NextReports ==
    \/ cross_referenced_report
    \/ roi_report
    \/ category_view

SpecReports == InitReports /\ [][NextReports]_vars

\* the metrics over every data file of up to MaxReportPages pages, pages
\* that no client follows included
InitMetrics ==
    /\ InitNoWorkers
    /\ \E store \in StoresOf(MetricPages, MaxReportPages) : InitRunAt(store)
    /\ InitToolsIdle
    /\ InitOpsIdle

NextMetrics ==
    \/ page_metrics

SpecMetrics == InitMetrics /\ [][NextMetrics]_vars

\* one run of sync_prod_to_staging.py over every pair of databases
Databases ==
    [SyncedTables -> [columns : ColumnSets, rows : {{}, {"r1"}}]]

InitStagingSync ==
    /\ InitNoWorkers
    /\ InitRunIdle
    /\ InitToolsIdle
    /\ prod_db \in Databases
    /\ staging_db \in Databases
    /\ \E full_sync \in BOOLEAN, faults \in BOOLEAN :
          sync_script = [NoSyncRun EXCEPT !.pc = "check", !.idx = 1,
                                          !.full_sync = full_sync,
                                          !.faults = faults]
    /\ staging_log = {}
    /\ InitApiIdle

NextStagingSync ==
    \/ check_schema_compatibility
    \/ check_done
    \/ sync_table
    \/ sync_finish

SpecStagingSync == InitStagingSync /\ [][NextStagingSync]_vars

\* the API over two users: each owns one client and one page
OwnedRows ==
    <<[id |-> 1, user_id |-> "u1", ig_username |-> CAB, notes |-> Null],
      [id |-> 2, user_id |-> "u2", ig_username |-> CAB, notes |-> Null]>>

InitApi ==
    /\ InitNoWorkers
    /\ InitRunIdle
    /\ InitToolsIdle
    /\ prod_db = [t \in SyncedTables |-> [columns |-> {"id"}, rows |-> {}]]
    /\ staging_db = [t \in SyncedTables |-> [columns |-> {"id"}, rows |-> {}]]
    /\ sync_script = NoSyncRun
    /\ staging_log = {}
    /\ api_db = [clients |-> OwnedRows, pages |-> OwnedRows]
    /\ api_req = [r \in Requests |-> NoRequest]
    /\ api_last = NoCall

NextApi ==
    \/ update_client
    \/ update_page

SpecApi == InitApi /\ [][NextApi]_vars

\* two requests that create clients, in every order and overlap
NextCreate ==
    \/ \E r \in Requests : send_request(r)
    \/ \E r \in Requests : check_existing(r)
    \/ \E r \in Requests : insert_client(r)

SpecCreate == InitApi /\ [][NextCreate]_vars

\* ------------------------------------------------------------------------
\* Properties of the workers and the tables
\* ------------------------------------------------------------------------
Terminal == {"completed", "failed"}

StatusIs(j, S) == j \in DOMAIN scrape_runs /\ scrape_runs[j].status \in S

\* C1: with one worker of each job type and every database and scraping
\* call answered, every row created as pending is eventually claimed
\* (processing) and every claimed row eventually written completed or failed
C1_PendingRunsAreProcessed ==
    \A j \in 1..(MaxRuns + 1) :
        /\ StatusIs(j, {"pending"}) ~> StatusIs(j, {"processing"})
        /\ StatusIs(j, {"processing"}) ~> StatusIs(j, Terminal)

C1_Witness ==
    /\ \E j \in DOMAIN scrape_runs :
          /\ scrape_runs[j].scrape_type = "client_following"
          /\ scrape_runs[j].status \in Terminal
    /\ \E j \in DOMAIN scrape_runs :
          /\ scrape_runs[j].scrape_type = "profile_scrape"
          /\ scrape_runs[j].status \in Terminal

\* C2: a row that is completed or failed keeps that status in every step
C2_TerminalRowsKeepStatus ==
    [][\A j \in DOMAIN scrape_runs :
          scrape_runs[j].status \in Terminal
             => scrape_runs'[j].status = scrape_runs[j].status]_vars

\* C3: the claim is an unconditional update: whatever the status of the row
\* a worker read in its poll, its claim step sets it to processing and the
\* worker goes on to process the row, so two workers that read the same
\* pending row both process it
C3_ClaimIsUnconditional ==
    [][\A w \in CFWorkers :
          CF_mark_processing(w)
             => /\ pc'[w] = "processing"
                /\ job'[w] = job[w]
                /\ scrape_runs'[job[w]].status = "processing"]_vars

InProcessJob == {"processing", "store_pages", "delete", "insert", "targeted",
                 "complete", "update_client"}

C3_Witness ==
    \E w1, w2 \in CFWorkers :
        /\ w1 # w2
        /\ job[w1] # 0
        /\ job[w1] = job[w2]
        /\ pc[w1] \in InProcessJob
        /\ pc[w2] \in InProcessJob

FollowersOf(page_id) ==
    { c \in DOMAIN clients : <<c, page_id>> \in BagToSet(client_following) }

FollowingIncludes(client, u) ==
    \E i \in DOMAIN client.following : client.following[i].username = u

C6_ClientsFollowingMatchesLists ==
    \A k \in DOMAIN clients_data.pages :
        LET page == clients_data.pages[k]
        IN  /\ Range(page.clients_following) =
                 { c.username : c \in
                     { c \in Range(clients_data.clients) :
                         FollowingIncludes(c, page.username) } }
            /\ Cardinality(Range(page.clients_following)) =
                 Len(page.clients_following)

\* C7: at rest, the consecutive_failures stored for a page is the number of
\* failed attempts on it since its last success (0 right after a success).
C7_CounterMatchesFailedAttempts ==
    run_pc # "running" =>
        \A k \in DOMAIN clients_data.pages :
            clients_data.pages[k].profile_data.consecutive_failures
                = fails_since[clients_data.pages[k].username]

RoutineRun == priority_scrape \/ scrape_all

ForceRun == re_scrape_priority \/ re_scrape_all

Selected(u) == \E i \in DOMAIN pages_to_scrape : pages_to_scrape[i] = u

\* C8: a routine run skips a failed page with fewer than 5 consecutive
\* failures while its last attempt is less than one hour old and takes it
\* from one hour on; with 5 or more it skips the page until 30 days after
\* the last attempt.
C8_RoutineBackoff ==
    [][RoutineRun =>
        \A k \in DOMAIN clients_data.pages :
            LET page == clients_data.pages[k]
                pd   == page.profile_data
            IN  pd.failed =>
                  IF pd.consecutive_failures < 5
                  THEN Selected(page.username)' <=>
                          now - pd.last_attempt >= 60
                  ELSE Selected(page.username)' <=>
                          now - pd.last_attempt >= 30 * 1440]_vars

\* the 4-failures boundary: skipped at 59 minutes, and taken at 61 minutes
C8_Witness ==
    /\ mode \in {"priority_scrape", "scrape_all"}
    /\ run_pc = "running"
    /\ progress.i = 0
    /\ now = 61
    /\ \E k \in DOMAIN data :
          /\ data[k].profile_data.failed
          /\ data[k].profile_data.consecutive_failures = 4
          /\ data[k].profile_data.last_attempt = 0
          /\ Selected(data[k].username)
    /\ \E k \in DOMAIN data :
          /\ data[k].profile_data.long_term_failed
          /\ data[k].profile_data.consecutive_failures >= 5
          /\ ~Selected(data[k].username)

\* C9: a force re-scrape run takes a page that holds a successful profile or
\* a failure less than one hour old, and takes no long-term-failed page
\* whose last attempt is less than 30 days old.
C9_ForceRunsKeepLongTermCoolDown ==
    [][ForceRun =>
        \A k \in DOMAIN clients_data.pages :
            LET page == clients_data.pages[k]
                pd   == page.profile_data
            IN  /\ (pd.profile_pic_url /\ pd.profile_pic_base64)
                       => Selected(page.username)'
                /\ (pd.failed /\ ~pd.long_term_failed)
                       => Selected(page.username)'
                /\ (pd.failed /\ pd.long_term_failed
                       /\ now - pd.last_attempt < 30 * 1440)
                       => ~Selected(page.username)']_vars

C9_Witness ==
    /\ mode \in {"re_scrape_priority", "re_scrape_all"}
    /\ run_pc = "running"
    /\ progress.i = 0
    /\ \E k \in DOMAIN data :
          /\ data[k].profile_data.profile_pic_base64
          /\ Selected(data[k].username)
    /\ \E k \in DOMAIN data :
          /\ data[k].profile_data.long_term_failed
          /\ now - data[k].profile_data.last_attempt = 43199
          /\ ~Selected(data[k].username)

\* C10: a batch is never stopped by the failure of one item, and when it
\* ends the succeeded and failed counts add up to the number of items.
C10_BatchSurvivesItemFailure ==
    /\ run_pc # "crashed"
    /\ run_pc = "done" =>
          progress.successful + progress.failed = Len(prioritized_list)
    /\ (batch.active /\ batch.queue = <<>>) =>
          Len(batch.succeeded) + Len(batch.failed) = batch.total

AllowListed == Range(CategoryFields) \cup Range(ContactFields)

\* C11: in the smart merge, an allow-listed field (category and
\* category_confidence included) whose existing value is null or empty
\* keeps the new record's value in the merged page (stated for a new record
\* that holds a value for the field).
C11_EmptyExistingKeepsNew ==
    merge_result.done =>
        \A i \in DOMAIN new_data.pages : \A f \in AllowListed :
            LET u == new_data.pages[i].username
            IN  (/\ ~IsTruthy(GetFields(data_file.pages, u)[f])
                 /\ IsTruthy(new_data.pages[i].fields[f]))
                   => GetFields(merge_result.pages, u)[f]
                         = new_data.pages[i].fields[f]

\* C12: for a page of both datasets, every allow-listed field with a
\* non-empty existing value keeps the existing value, and every other field
\* except website_promo_info takes the new record's value (stated for the
\* fields the new record holds a value for).
C12_MergePrecedence ==
    merge_result.done =>
        \A i \in DOMAIN new_data.pages : \A f \in FieldNames :
            LET u == new_data.pages[i].username
                e == GetFields(data_file.pages, u)
                m == GetFields(merge_result.pages, u)
            IN  Has(data_file.pages, u) =>
                  IF f \in AllowListed /\ IsTruthy(e[f])
                  THEN m[f] = e[f]
                  ELSE (/\ f # "website_promo_info"
                        /\ IsTruthy(new_data.pages[i].fields[f]))
                          => m[f] = new_data.pages[i].fields[f]

\* C13: posting the payload that was posted before leaves the clients and
\* the pages of the data file as they were.
C13_SamePayloadTwice ==
    posts >= 2 =>
        /\ data_file.clients = previous.clients
        /\ data_file.pages = previous.pages

C13_Witness ==
    /\ posts = 2
    /\ Has(data_file.pages, ZEN) /\ ~Has(new_data.pages, ZEN)
    /\ Has(new_data.pages, NOIR)
    /\ GetFields(data_file.pages, NOIR)["category"] = "X"
    /\ GetFields(new_data.pages, NOIR)["category"] = "Y"
    /\ GetFields(data_file.pages, NOIR)["follower_count"] = "Y"
    /\ data_file.clients = <<"c1", "c2">>

\* C14: the merged clients are the new dataset's clients; the merged pages
\* are the new dataset's pages plus every page only the existing dataset
\* holds, carried over with all its fields unchanged.
C14_MergeFrame ==
    merge_result.done =>
        /\ merge_result.clients = new_data.clients
        /\ Range(Usernames(merge_result.pages)) =
              Range(Usernames(new_data.pages))
                 \cup Range(Usernames(data_file.pages))
        /\ Len(merge_result.pages) =
              Cardinality(Range(Usernames(merge_result.pages)))
        /\ \A k \in DOMAIN data_file.pages :
              ~Has(new_data.pages, data_file.pages[k].username)
                 => data_file.pages[k] \in Range(merge_result.pages)

C14_Witness ==
    /\ merge_result.done
    /\ Has(data_file.pages, ZEN) /\ ~Has(new_data.pages, ZEN)
    /\ Has(new_data.pages, NOIR) /\ Has(data_file.pages, NOIR)
    /\ Len(merge_result.pages) = 2
    /\ data_file.clients # new_data.clients

\* C15: the merged website_promo_info is the existing record's only when the
\* new record has no such key; when the new record has the key the merged
\* page keeps the new record's value.
C15_PromoInfoWhenNewLacksKey ==
    merge_result.done =>
        \A i \in DOMAIN new_data.pages :
            LET u == new_data.pages[i].username
                n == new_data.pages[i].fields["website_promo_info"]
                m == GetFields(merge_result.pages, u)["website_promo_info"]
            IN  n # Absent => m = n

\* C16: merging a dataset with itself gives every page the allow-listed
\* values it had.
C16_SelfMergeKeepsEdits ==
    (posts >= 1 /\ previous = new_data) =>
        \A i \in DOMAIN new_data.pages : \A f \in AllowListed :
            GetFields(data_file.pages, new_data.pages[i].username)[f]
                = new_data.pages[i].fields[f]

C16_Witness ==
    /\ posts = 1
    /\ previous = new_data
    /\ Len(data_file.pages) = 2
    /\ GetFields(previous.pages, NOIR)["category"] = Absent
    /\ GetFields(previous.pages, NOIR)["promo_price"] = Null
    /\ GetFields(data_file.pages, NOIR)["website_promo_info"] = "X"

\* ------------------------------------------------------------------------
\* Properties of the rankings
\* ------------------------------------------------------------------------
PageOf(u) == clients_data.pages[IndexOf(clients_data.pages, u)]

PositionIn(seq, u) == CHOOSE i \in DOMAIN seq : seq[i] = u

\* C17: prioritize_pages returns every input page once, with tier 1 for a
\* hotlist page of two or more clients, 2 for another hotlist page, 3 for
\* another page of two or more clients and 4 for the rest; the tiers come in
\* the order 1, 2, 3, 4 and the pages of one tier in their input order; a
\* second call on the returned list returns the same list.
C17_StablePartition ==
    /\ report.op = "prioritize_pages" =>
          /\ Len(report.rows) = Len(report.input)
          /\ \A u \in Range(report.input) :
                Cardinality({ i \in DOMAIN report.rows : report.rows[i][1] = u }) = 1
          /\ \A i \in DOMAIN report.rows :
                LET page == PageOf(report.rows[i][1])
                    many == Len(page.clients_following) >= 2
                    hot  == matches_hotlist(page)
                    t    == report.rows[i][2]
                IN  /\ t \in 1..4
                    /\ (t = 1) = (many /\ hot)
                    /\ (t = 2) = (~many /\ hot)
                    /\ (t = 3) = (many /\ ~hot)
                    /\ (t = 4) = (~many /\ ~hot)
          /\ \A i, j \in DOMAIN report.rows :
                i < j =>
                   /\ report.rows[i][2] <= report.rows[j][2]
                   /\ report.rows[i][2] = report.rows[j][2] =>
                         PositionIn(report.input, report.rows[i][1])
                            < PositionIn(report.input, report.rows[j][1])
    /\ report.op = "prioritize_again" => report.rows = report.before

C17_Witness ==
    /\ report.op = "prioritize_again"
    /\ Len(report.rows) = 3
    /\ report.rows[1] = <<CAB, 2>>
    /\ report.rows[2] = <<NOIR, 2>>
    /\ report.rows[3][2] = 3
    /\ Usernames(clients_data.pages)[1] = NOIR

\* C19: get_cross_referenced_pages(min_clients) returns one row for each
\* page followed by at least min_clients clients and for no other page; a row
\* of more clients stands before a row of fewer, and rows of equally many
\* clients stand in the order of the store.
StorePosition(u) == IndexOf(clients_data.pages, u)

C19_CrossReferenceFilterAndOrder ==
    report.op = "get_cross_referenced_pages" =>
        /\ { report.rows[i].username : i \in DOMAIN report.rows }
              = { page.username : page \in
                    { q \in Range(clients_data.pages) :
                        Len(q.clients_following) >= report.min_clients } }
        /\ \A i, j \in DOMAIN report.rows :
              i < j =>
                 /\ report.rows[i].username # report.rows[j].username
                 /\ report.rows[i].clients_following >= report.rows[j].clients_following
                 /\ report.rows[i].clients_following = report.rows[j].clients_following
                       => StorePosition(report.rows[i].username)
                             < StorePosition(report.rows[j].username)
        /\ \A i \in DOMAIN report.rows :
              report.rows[i].clients_following
                 = Len(PageOf(report.rows[i].username).clients_following)

\* a page followed by c1 and c2 only is listed with min_clients = 2
C19_Witness ==
    /\ report.op = "get_cross_referenced_pages"
    /\ report.min_clients = 2
    /\ Len(clients_data.pages) = 2
    /\ Len(report.rows) = 2
    /\ report.rows[1].clients_following = 3
    /\ report.rows[2].clients = <<"c1", "c2">>
    /\ report.rows[2].username = clients_data.pages[1].username

\* the entries of the ROI report carry the metrics of their pages and stand
\* in the order of concentration_per_dollar, the largest first
RoiRowsAreRanked ==
    /\ \A i \in DOMAIN report.rows :
          LET row == report.rows[i]
              page == PageOf(row.username)
              clients_following == Len(page.clients_following)
              price == page.promo_price[1]
              cpd == row.concentration_per_dollar[1]
              cpc == row.cost_per_client[1]
          IN  /\ row.concentration_per_dollar # NoMetric
              /\ row.cost_per_client # NoMetric
              /\ IF page.follower_count > 0
                 THEN cpd[1] * (page.follower_count * price)
                         = clients_following * cpd[2]
                 ELSE cpd[1] = 0
              /\ cpc[1] * clients_following = price * cpc[2]
    /\ \A i, j \in DOMAIN report.rows :
          i < j =>
             /\ report.rows[i].username # report.rows[j].username
             /\ ~Greater(report.rows[j].concentration_per_dollar[1],
                         report.rows[i].concentration_per_dollar[1])
    /\ \A i \in DOMAIN report.before :
          ~HasPositivePrice(PageOf(report.before[i].username))
             => report.before[i].concentration_per_dollar = NoMetric

RoiUsernames == { report.rows[i].username : i \in DOMAIN report.rows }

\* C18 as stated: the ROI report lists every page of a price greater than 0
\* and no other page, ordered by concentration_per_dollar descending, each
\* with concentration_per_dollar = concentration / promo_price and
\* cost_per_client = promo_price / clients_following; a page without a
\* positive price carries no concentration_per_dollar.
C18_RoiListsEveryPricedPage ==
    report.op = "calculate_roi_metrics" =>
        /\ RoiUsernames
              = { page.username : page \in
                    { q \in Range(clients_data.pages) : HasPositivePrice(q) } }
        /\ RoiRowsAreRanked

\* C18, amended: the ROI report for min_clients lists every page of a price
\* greater than 0 that at least min_clients clients follow, and no other
\* page; the order and the metrics are as stated.
C18_RoiListsPricedCrossReferencedPages ==
    report.op = "calculate_roi_metrics" =>
        /\ RoiUsernames
              = { page.username : page \in
                    { q \in Range(clients_data.pages) :
                        /\ HasPositivePrice(q)
                        /\ Len(q.clients_following) >= report.min_clients } }
        /\ RoiRowsAreRanked

\* min_clients = 2 leaves out a priced page that one client follows
C18_Witness ==
    /\ report.op = "calculate_roi_metrics"
    /\ report.min_clients = 2
    /\ Len(report.rows) = 1
    /\ Len(clients_data.pages) = 2
    /\ \A i \in 1..2 : HasPositivePrice(clients_data.pages[i])
    /\ Len(clients_data.pages[1].clients_following) = 1
    /\ report.rows[1].username = clients_data.pages[2].username
    /\ report.rows[1].cost_per_client = <<<<100, 2>>>>

\* the pages of concentration_per_dollar stand in its descending order and
\* the other pages in the descending order of followers_per_client
GroupsAreRanked ==
    \A i, j \in DOMAIN report.rows :
        LET x == report.rows[i]
            y == report.rows[j]
        IN  i < j =>
               /\ (x.concentration_per_dollar # NoMetric
                      /\ y.concentration_per_dollar # NoMetric)
                     => ~Greater(y.concentration_per_dollar[1],
                                 x.concentration_per_dollar[1])
               /\ (x.concentration_per_dollar = NoMetric
                      /\ y.concentration_per_dollar = NoMetric)
                     => ~Greater(y.followers_per_client, x.followers_per_client)

\* C20 as stated: in the category view every page with a defined price
\* stands before every page without one; the priced pages are ordered by
\* concentration_per_dollar descending and the unpriced pages by
\* followers_per_client descending.
C20_DefinedPriceFirst ==
    report.op = "get_pages_by_category" =>
        /\ \A i, j \in DOMAIN report.rows :
              (report.rows[i].promo_price # NoPrice
                  /\ report.rows[j].promo_price = NoPrice) => i < j
        /\ GroupsAreRanked

\* C20, amended: in the category view every page with a price greater than 0
\* stands before every other page; the pages with a price greater than 0 are
\* ordered by concentration_per_dollar descending and the other pages by
\* followers_per_client descending.
C20_PositivePriceFirst ==
    report.op = "get_pages_by_category" =>
        /\ \A i, j \in DOMAIN report.rows :
              (HasPositivePrice(report.rows[i])
                  /\ ~HasPositivePrice(report.rows[j])) => i < j
        /\ \A i \in DOMAIN report.rows :
              HasPositivePrice(report.rows[i])
                 = (report.rows[i].concentration_per_dollar # NoMetric)
        /\ GroupsAreRanked

\* a page of price 0 stands behind a page without a price that has more
\* followers per client
C20_Witness ==
    /\ report.op = "get_pages_by_category"
    /\ Len(report.rows) = 2
    /\ report.rows[1].promo_price = NoPrice
    /\ report.rows[2].promo_price = <<0>>
    /\ report.rows[1].username = clients_data.pages[2].username
    /\ Greater(report.rows[1].followers_per_client,
               report.rows[2].followers_per_client)

\* C21: the concentration of a page without followers is 0, the
\* followers_per_client of a page without clients is 0 in the report and None
\* in the API, and no quotient is taken with a divisor of 0.
C21_NoDivisionByZero ==
    report.op = "metrics" =>
        /\ \A i \in DOMAIN clients_data.pages :
              Len(clients_data.pages[i].clients_following) >= report.min_clients
                 => \E k \in DOMAIN report.rows :
                       report.rows[k].username = clients_data.pages[i].username
        /\ \A i \in DOMAIN report.rows :
              LET row == report.rows[i]
              IN  /\ row.concentration[2] # 0
                  /\ row.followers_per_client[2] # 0
                  /\ row.total_followers = 0 => row.concentration[1] = 0
                  /\ row.clients_following = 0 => row.followers_per_client[1] = 0
        /\ \A i \in DOMAIN clients_data.pages :
              Len(clients_data.pages[i].clients_following) = 0
                 => report.before[i] = NoMetric

C21_Witness ==
    /\ report.op = "metrics"
    /\ report.min_clients = 0
    /\ Len(report.rows) = 2
    /\ report.rows[1].total_followers = 1000
    /\ report.rows[1].clients_following = 3
    /\ report.rows[2].clients_following = 0
    /\ report.rows[2].total_followers = 0
    /\ clients_data.pages[2].username = NOIR
    /\ report.before = <<NoMetric, <<<<33333, 100>>>> >>

\* ------------------------------------------------------------------------
\* Properties of the scripts
\* ------------------------------------------------------------------------
SchemaDrift ==
    \E table \in SyncedTables :
        prod_db[table].columns \ staging_db[table].columns # {}

\* C22: when a table of the run has a column that production has and
\* staging lacks, the run writes and deletes no staging row and syncs no
\* table, in a full and in an incremental run.
C22_SchemaDriftStopsTheRun ==
    (sync_script.pc # "off" /\ SchemaDrift) =>
        /\ staging_log = {}
        /\ sync_script.pc \in {"check", "exit"}

\* ------------------------------------------------------------------------
\* Properties of the API
\* ------------------------------------------------------------------------
\* C23: an update of a client or a page whose id does not exist or belongs
\* to another user is answered with a status from 400 to 499 and leaves
\* every row as it was.
C23_UnknownRowGets4xx ==
    (api_last.op # Null /\ ~api_last.known) =>
        /\ api_last.status \in 400..499
        /\ api_db = api_last.before

\* C24: no two rows of the clients table have the same user and the same
\* lowercase handle.
C24_HandlesAreUnique ==
    \A i, j \in DOMAIN api_db.clients :
        (/\ i # j
         /\ api_db.clients[i].user_id = api_db.clients[j].user_id)
            => lower(api_db.clients[i].ig_username)
                  # lower(api_db.clients[j].ig_username)

\* C25: a failed profile-scrape attempt leaves the page's stored profile
\* snapshot (bio, pictures) as it was; only a successful scrape replaces
\* it.
C25_FailedAttemptKeepsSnapshot ==
    [][(scrape_pages_item /\ progress'.failed > progress.failed) =>
          \A k \in DOMAIN data :
              LET old == data[k].profile_data
                  new == data'[k].profile_data
              IN  /\ new.bio = old.bio
                  /\ new.profile_pic_url = old.profile_pic_url
                  /\ new.profile_pic_base64 = old.profile_pic_base64]_vars

\* C26: when a client_following job ends as failed, every client_following
\* row its client had when the job began is still stored.
C26_FailedJobKeepsRows ==
    [][\A w \in CFWorkers :
          (/\ job[w] # 0
           /\ scrape_runs[job[w]].status = "processing"
           /\ scrape_runs'[job[w]].status = "failed")
          => \A r \in BagToSet(rows_before[w]) :
                 CopiesIn(r, client_following') >= 1]_vars

\* both processes have finished: the reconciliation run is done and no
\* client_following worker holds a job
BothFinished ==
    /\ sync_pc = "done"
    /\ \A w \in running \cap CFWorkers : pc[w] = "poll"

\* C27: when a sync_client_counts run and a client_following job ran at the
\* same time, then at the moment the later of the two finishes every page's
\* client_count is its number of client_following rows.
C27_OverlapEndsConsistent ==
    [][(~BothFinished /\ BothFinished' /\ sync_overlap')
          => \A i \in DOMAIN pages' :
                pages'[i].client_count = CountMap(client_following', i)]_vars

\* C28: smart_follower_backfill queues no client_following job for a client
\* that has a job pending or being processed by the worker.
C28_NoSecondJob ==
    [][(backfill.pc = "queue" /\ Len(scrape_runs') > Len(scrape_runs))
          => ~HasPendingScrape_Processing(
                 scrape_runs'[Len(scrape_runs')].client_id)]_vars

\* C29: every job queued by backfill_follower_counts is eventually picked
\* up by the profile scrape worker, which takes it out of the pending state.
C29_QueuedJobsAreProcessed ==
    \A i \in 1..MaxQueued :
        (i \in DOMAIN scrape_jobs)
            ~> (i \in DOMAIN scrape_jobs /\ scrape_jobs[i].status # "pending")

\* a further call of the scraper follows the one that just ended
FurtherCall == cli.op = "scraping" /\ cli'.op = "scraping"

\* the call ended in this step and returned None
ReturnsNone == cli'.op = "idle" /\ cli' # cli /\ cli'.returned = "None"

\* C30 as stated: scrape_client_following calls the scraper at most
\* max_retries times, makes no further call after a 401/unauthorized error
\* or after a second empty result, and leaves the stored clients and pages
\* unchanged whenever it returns None.
C30_NoCallAfterUnauthorized ==
    [][/\ cli'.attempt <= max_retries
       /\ FurtherCall => /\ "401" \notin cli'.last_error.terms
                         /\ cli'.empty_results < 2
       /\ ReturnsNone => clients_data' = clients_data]_vars

\* C30: scrape_client_following calls the scraper at most max_retries
\* times, makes no further call after a second empty result or after a
\* 401/unauthorized error whose message does not report an invalid
\* authentication token (that one is retried once), and leaves the stored
\* clients and pages unchanged whenever it returns None.
C30_BoundedCallsAndNoneKeepsData ==
    [][/\ cli'.attempt <= max_retries
       /\ FurtherCall =>
            /\ "401" \in cli'.last_error.terms
                  => /\ "token is not valid" \in cli'.last_error.terms
                     /\ cli'.attempt = 2
            /\ cli'.empty_results < 2
       /\ ReturnsNone => clients_data' = clients_data]_vars

\* a call has returned None while a following list and its pages are stored
C30_Witness ==
    /\ cli.op = "idle"
    /\ cli.returned = "None"
    /\ clients_data.pages # <<>>
    /\ \E k \in DOMAIN clients_data.clients :
          clients_data.clients[k].following # <<>>

====
